---- MODULE Spec2Model ----
(***************************************************************************)
(* Dual LLM chat: the conversation page (src/src/pages/Index.tsx), the     *)
(* client transport (src/src/services/api.ts), the history formatter       *)
(* (formatMessagesForAPI) and the generation service/routes of the server. *)
(*                                                                         *)
(* Eight specifications share this module:                                 *)
(*   Spec        the conversation page: start / pause / reset / send,      *)
(*               configuration setters and the wall clock;                 *)
(*   SpecFormat  formatMessagesForAPI applied to bounded pairs of logs;    *)
(*   SpecStream  one call of generateLLMResponseStream against every       *)
(*               backend behaviour and every split of the byte stream;     *)
(*   SpecGen     one blocking generation: generateResponse on the server,  *)
(*               the /generate route, the network, generateLLMResponse.    *)
(*   SpecServe   one request, blocking or incremental, from the route's    *)
(*               validation over the provider call to the client's result. *)
(*   SpecTurn    the turn orchestrator: requestTurn with its placeholder   *)
(*               and paced reveal, autostart, start / pause / reset.       *)
(*   SpecWindow  formatMessagesForAPI on logs longer than its window.      *)
(*   SpecRoles   the message lists the provider paths of generateResponse  *)
(*               and generateStreamingResponse build from one history.     *)
(* Each specification leaves the variables of the others at their idle     *)
(* value.                                                                  *)
(***************************************************************************)
EXTENDS Integers, Sequences, FiniteSets, TLC

VARIABLES
    \* ---- conversation page (Index.tsx) ----
    topic,          \* location.state.topic, or Nil
    startingLlm,    \* location.state.startingLlm, or Nil
    isRunning,      \* useState(false)
    currentTurn,    \* "llm1" | "llm2" | Nil
    turnCount,      \* useState(0)
    llm1Messages,   \* Message[]
    llm2Messages,   \* Message[]
    llm1Config,     \* LLMConfig
    llm2Config,     \* LLMConfig
    isLlm1Typing,   \* useState(false)
    isLlm2Typing,   \* useState(false)
    now,            \* the wall clock read by Date.now()
    lastOp,         \* history: the last start/pause/reset/send handler that ran
    edits,          \* history: number of configuration setter calls so far
    \* ---- formatMessagesForAPI ----
    fmtLlm1,        \* argument llm1Messages
    fmtLlm2,        \* argument llm2Messages
    fmtSide,        \* argument currentSide
    fmtResult,      \* the returned history
    fmtPc,          \* "call" before formatMessagesForAPI ran, "return" after
    \* ---- one blocking generation (llmService, routes/llm.js, api.ts) ----
    genIn,          \* the request and the environment: model, keys, provider outcome
    genSrv,         \* what generateResponse returned (or that it threw)
    genHttp,        \* the HTTP exchange as the client sees it
    genOut,         \* what generateLLMResponse returned (or that it threw)
    genPc,          \* "service", "route", "network", "client", "done"
    \* ---- one call of generateLLMResponseStream (api.ts) ----
    stBackend,      \* how the backend behaves for this call
    stPos,          \* bytes of the event stream already read
    stDecoder,      \* the bytes the TextDecoder holds back
    stBuffer,       \* the line buffer
    stI,            \* the loop index of the 404 fallback
    stCalls,        \* the callbacks invoked so far, in order
    stPc,           \* "fetch", "fallback", "emit", "read", "done"
    \* ---- the turn orchestrator: requestTurn and autostart ----
    orFlags,        \* per participant: thinking, generating, typing
    orRegistry,     \* the streaming registry: ids being filled
    orCalls,        \* per participant: the requestTurn call in flight
    orNotices,      \* the error notifications shown so far
    orAuto,         \* autostart: the one-shot latch, the pending timer, the firings
    orRequests      \* history: requestTurn invocations so far

uiVars == <<topic, startingLlm, isRunning, currentTurn, turnCount, llm1Messages,
            llm2Messages, llm1Config, llm2Config, isLlm1Typing, isLlm2Typing,
            now, lastOp, edits>>
fmtVars == <<fmtLlm1, fmtLlm2, fmtSide, fmtResult, fmtPc>>
genVars == <<genIn, genSrv, genHttp, genOut, genPc>>
stVars == <<stBackend, stPos, stDecoder, stBuffer, stI, stCalls, stPc>>
orVars == <<orFlags, orRegistry, orCalls, orNotices, orAuto, orRequests>>
vars == <<uiVars, fmtVars, genVars, stVars, orVars>>

Nil == "nil"
Sides == {"llm1", "llm2"}
Peer(side) == IF side = "llm1" THEN "llm2" ELSE "llm1"

(***************************************************************************)
(* Bounds of the model.                                                    *)
(***************************************************************************)
MaxSends == 2        \* messages a participant may append after the greeting
MaxTurns == 4        \* cap of the turn counter
MaxTicks == 1        \* clock ticks after page load
MaxEdits == 1        \* configuration setter calls
MaxLogLen == 3       \* entries of a log handed to formatMessagesForAPI
MaxFrames == 2       \* frames of an event stream
MaxDeltas == 2       \* deltas of a provider's completion stream
MaxRequests == 2     \* requestTurn invocations
MaxOlder == 2        \* entries of a log that precede its window of maxHistory
MaxHistoryLen == 3   \* entries of a conversationHistory handed to a provider path

(***************************************************************************)
(* Conversation page.                                                      *)
(***************************************************************************)
Topics == {Nil, "future of AI"}

\* new Date().toLocaleTimeString(): the clock at one-second resolution.
ToLocaleTimeString(t) == t \div 1000

\* Date.now() at page load, in milliseconds: the last millisecond of a second,
\* so that a tick of the clock also moves the displayed time.
PageLoad == 999

\* Template interpolation of the participant number.
NumberText(llmNumber) == IF llmNumber = 1 THEN "1" ELSE "2"

getInitialMessage(llmNumber, isStarter) ==
    IF isStarter /\ topic # Nil
    THEN <<"I'd like to discuss", topic>>
    ELSE <<"Hello! I'm LLM", NumberText(llmNumber), topic>>

getSystemPrompt(llmNumber) ==
    IF topic # Nil THEN <<"base prompt", NumberText(llmNumber), "topic is", topic>>
    ELSE <<"base prompt", NumberText(llmNumber)>>

\* The single greeting entry a log holds at construction and after reset.
GreetingLog(llmNumber, side, t) ==
    << [id |-> 1,
        content |-> getInitialMessage(llmNumber, startingLlm = side),
        timestamp |-> ToLocaleTimeString(t)] >>

DefaultConfig(llmNumber) ==
    [model |-> IF llmNumber = 1 THEN "gpt-4" ELSE "claude-3-opus",
     temperature |-> 7,          \* tenths: 0.7
     maxTokens |-> 2000,
     systemPrompt |-> getSystemPrompt(llmNumber)]

FmtIdle ==
    /\ fmtLlm1 = <<>>
    /\ fmtLlm2 = <<>>
    /\ fmtSide = Nil
    /\ fmtResult = <<>>
    /\ fmtPc = "idle"

UiInit ==
    /\ topic \in Topics
    /\ startingLlm \in Sides \cup {Nil}
    /\ isRunning = FALSE
    /\ currentTurn = Nil
    /\ turnCount = 0
    /\ now = PageLoad              \* after the epoch: ids "1" are older
    /\ llm1Messages = GreetingLog(1, "llm1", now)
    /\ llm2Messages = GreetingLog(2, "llm2", now)
    /\ llm1Config = DefaultConfig(1)
    /\ llm2Config = DefaultConfig(2)
    /\ isLlm1Typing = FALSE
    /\ isLlm2Typing = FALSE
    /\ lastOp = "init"
    /\ edits = 0

GenIdle ==
    /\ genIn = Nil
    /\ genSrv = Nil
    /\ genHttp = Nil
    /\ genOut = Nil
    /\ genPc = "idle"

StIdle ==
    /\ stBackend = Nil
    /\ stPos = 0
    /\ stDecoder = <<>>
    /\ stBuffer = <<>>
    /\ stI = 0
    /\ stCalls = <<>>
    /\ stPc = "idle"

OrIdle ==
    /\ orFlags = Nil
    /\ orRegistry = {}
    /\ orCalls = Nil
    /\ orNotices = <<>>
    /\ orAuto = Nil
    /\ orRequests = 0

Init == UiInit /\ FmtIdle /\ GenIdle /\ StIdle /\ OrIdle

\* useEffect: without a topic the page navigates back to "/" at once and is
\* unmounted, so its handlers run only when a topic was supplied.
Mounted == topic # Nil

UiFrame == UNCHANGED <<topic, startingLlm, isLlm1Typing, isLlm2Typing, now, edits>>

\* handleStart without setTurnCount(1).
handleStart_keepsCount ==
    /\ Mounted
    /\ isRunning' = TRUE
    /\ currentTurn' = (IF startingLlm # Nil THEN startingLlm ELSE "llm1")
    /\ lastOp' = "start"
    /\ UNCHANGED <<turnCount, llm1Messages, llm2Messages, llm1Config, llm2Config>>
    /\ UiFrame
    /\ UNCHANGED <<fmtVars, genVars, stVars, orVars>>

\* handleStart without setCurrentTurn.
handleStart_noTurn ==
    /\ Mounted
    /\ isRunning' = TRUE
    /\ turnCount' = 1
    /\ lastOp' = "start"
    /\ UNCHANGED <<currentTurn, llm1Messages, llm2Messages, llm1Config, llm2Config>>
    /\ UiFrame
    /\ UNCHANGED <<fmtVars, genVars, stVars, orVars>>

handleStart ==
    /\ Mounted
    /\ isRunning' = TRUE
    /\ currentTurn' = (IF startingLlm # Nil THEN startingLlm ELSE "llm1")
    /\ turnCount' = 1
    /\ lastOp' = "start"
    /\ UNCHANGED <<llm1Messages, llm2Messages, llm1Config, llm2Config>>
    /\ UiFrame
    /\ UNCHANGED <<fmtVars, genVars, stVars, orVars>>

\* handlePause that also calls setTurnCount(0).
handlePause_clearsCount ==
    /\ Mounted
    /\ isRunning' = FALSE
    /\ currentTurn' = Nil
    /\ turnCount' = 0
    /\ lastOp' = "pause"
    /\ UNCHANGED <<llm1Messages, llm2Messages, llm1Config, llm2Config>>
    /\ UiFrame
    /\ UNCHANGED <<fmtVars, genVars, stVars, orVars>>

handlePause ==
    /\ Mounted
    /\ isRunning' = FALSE
    /\ currentTurn' = Nil
    /\ lastOp' = "pause"
    /\ UNCHANGED <<turnCount, llm1Messages, llm2Messages, llm1Config, llm2Config>>
    /\ UiFrame
    /\ UNCHANGED <<fmtVars, genVars, stVars, orVars>>

\* handleReset without setTurnCount(0) and without restoring the second log.
handleReset_partial ==
    /\ Mounted
    /\ isRunning' = FALSE
    /\ currentTurn' = Nil
    /\ llm1Messages' = GreetingLog(1, "llm1", now)
    /\ lastOp' = "reset"
    /\ UNCHANGED <<turnCount, llm2Messages, llm1Config, llm2Config>>
    /\ UiFrame
    /\ UNCHANGED <<fmtVars, genVars, stVars, orVars>>

\* handleReset without setCurrentTurn(null).
handleReset_keepsTurn ==
    /\ Mounted
    /\ isRunning' = FALSE
    /\ turnCount' = 0
    /\ llm1Messages' = GreetingLog(1, "llm1", now)
    /\ llm2Messages' = GreetingLog(2, "llm2", now)
    /\ lastOp' = "reset"
    /\ UNCHANGED <<currentTurn, llm1Config, llm2Config>>
    /\ UiFrame
    /\ UNCHANGED <<fmtVars, genVars, stVars, orVars>>

handleReset ==
    /\ Mounted
    /\ isRunning' = FALSE
    /\ currentTurn' = Nil
    /\ turnCount' = 0
    /\ llm1Messages' = GreetingLog(1, "llm1", now)
    /\ llm2Messages' = GreetingLog(2, "llm2", now)
    /\ lastOp' = "reset"
    /\ UNCHANGED <<llm1Config, llm2Config>>
    /\ UiFrame
    /\ UNCHANGED <<fmtVars, genVars, stVars, orVars>>

\* The message a send handler builds: id Date.now().toString(), sample content.
NewMessage(llmNumber) ==
    [id |-> now,
     content |-> <<"This is a sample message from LLM", NumberText(llmNumber)>>,
     timestamp |-> ToLocaleTimeString(now)]

\* handleLlm1SendMessage that hands the turn to its own side.
handleLlm1SendMessage_keepsTurn ==
    /\ Mounted
    /\ Len(llm1Messages) <= MaxSends
    /\ turnCount < MaxTurns
    /\ llm1Messages' = Append(llm1Messages, NewMessage(1))
    /\ currentTurn' = "llm1"
    /\ turnCount' = turnCount + 1
    /\ lastOp' = "send1"
    /\ UNCHANGED <<isRunning, llm2Messages, llm1Config, llm2Config>>
    /\ UiFrame
    /\ UNCHANGED <<fmtVars, genVars, stVars, orVars>>

\* handleLlm1SendMessage that raises both activity flags and never clears them.
handleLlm1SendMessage_flagsBoth ==
    /\ Mounted
    /\ Len(llm1Messages) <= MaxSends
    /\ turnCount < MaxTurns
    /\ llm1Messages' = Append(llm1Messages, NewMessage(1))
    /\ currentTurn' = "llm2"
    /\ turnCount' = turnCount + 1
    /\ lastOp' = "send1"
    /\ isLlm1Typing' = TRUE
    /\ isLlm2Typing' = TRUE
    /\ UNCHANGED <<isRunning, llm2Messages, llm1Config, llm2Config>>
    /\ UNCHANGED <<topic, startingLlm, now, edits>>
    /\ UNCHANGED <<fmtVars, genVars, stVars, orVars>>

handleLlm1SendMessage ==
    /\ Mounted
    /\ Len(llm1Messages) <= MaxSends
    /\ turnCount < MaxTurns
    /\ llm1Messages' = Append(llm1Messages, NewMessage(1))
    /\ currentTurn' = "llm2"
    /\ turnCount' = turnCount + 1
    /\ lastOp' = "send1"
    /\ UNCHANGED <<isRunning, llm2Messages, llm1Config, llm2Config>>
    /\ UiFrame
    /\ UNCHANGED <<fmtVars, genVars, stVars, orVars>>

\* handleLlm2SendMessage that puts the new message in front of its log.
handleLlm2SendMessage_prepends ==
    /\ Mounted
    /\ Len(llm2Messages) <= MaxSends
    /\ turnCount < MaxTurns
    /\ llm2Messages' = <<NewMessage(2)>> \o llm2Messages
    /\ currentTurn' = "llm1"
    /\ turnCount' = turnCount + 1
    /\ lastOp' = "send2"
    /\ UNCHANGED <<isRunning, llm1Messages, llm1Config, llm2Config>>
    /\ UiFrame
    /\ UNCHANGED <<fmtVars, genVars, stVars, orVars>>

handleLlm2SendMessage ==
    /\ Mounted
    /\ Len(llm2Messages) <= MaxSends
    /\ turnCount < MaxTurns
    /\ llm2Messages' = Append(llm2Messages, NewMessage(2))
    /\ currentTurn' = "llm1"
    /\ turnCount' = turnCount + 1
    /\ lastOp' = "send2"
    /\ UNCHANGED <<isRunning, llm1Messages, llm1Config, llm2Config>>
    /\ UiFrame
    /\ UNCHANGED <<fmtVars, genVars, stVars, orVars>>

(***************************************************************************)
(* Configuration setters of the two panels: setLlmNConfig({...llmNConfig,  *)
(* field}).  The values are what the widgets can report: a model of the    *)
(* selector, a slider position (tenths), parseFloat of the number input    *)
(* (NaN for an empty input), any text.                                     *)
(***************************************************************************)
\* parseFloat("") of the number input: not a number, kept apart from every count.
NaN == -1
ModelChoices == {"gpt-4", "deepseek-chat"}
TemperatureChoices == {7, 20}
MaxTokensChoices == {2000, NaN}
SystemPromptChoices == {<<>>, <<"custom prompt">>}

\* The setter writing the field to both participants' configurations.
SetConfig_bothSides(side, field, value) ==
    /\ Mounted
    /\ edits < MaxEdits
    /\ edits' = edits + 1
    /\ llm1Config' = [llm1Config EXCEPT ![field] = value]
    /\ llm2Config' = [llm2Config EXCEPT ![field] = value]
    /\ UNCHANGED <<topic, startingLlm, isRunning, currentTurn, turnCount,
                   llm1Messages, llm2Messages, isLlm1Typing, isLlm2Typing,
                   now, lastOp>>
    /\ UNCHANGED <<fmtVars, genVars, stVars, orVars>>

SetConfig(side, field, value) ==
    /\ Mounted
    /\ edits < MaxEdits
    /\ edits' = edits + 1
    /\ IF side = "llm1"
       THEN /\ llm1Config' = [llm1Config EXCEPT ![field] = value]
            /\ UNCHANGED llm2Config
       ELSE /\ llm2Config' = [llm2Config EXCEPT ![field] = value]
            /\ UNCHANGED llm1Config
    /\ UNCHANGED <<topic, startingLlm, isRunning, currentTurn, turnCount,
                   llm1Messages, llm2Messages, isLlm1Typing, isLlm2Typing,
                   now, lastOp>>
    /\ UNCHANGED <<fmtVars, genVars, stVars, orVars>>

onModelChange(side, model) == SetConfig(side, "model", model)

onTemperatureChange(side, temperature) == SetConfig(side, "temperature", temperature)

onMaxTokensChange(side, maxTokens) == SetConfig(side, "maxTokens", maxTokens)

onSystemPromptChange(side, systemPrompt) == SetConfig(side, "systemPrompt", systemPrompt)

\* The passage of time between two handler invocations.
Tick ==
    /\ Mounted
    /\ now < PageLoad + MaxTicks
    /\ now' = now + 1
    /\ UNCHANGED <<topic, startingLlm, isRunning, currentTurn, turnCount,
                   llm1Messages, llm2Messages, llm1Config, llm2Config,
                   isLlm1Typing, isLlm2Typing, lastOp, edits>>
    /\ UNCHANGED <<fmtVars, genVars, stVars, orVars>>

Next ==
    \/ handleStart
    \/ handlePause
    \/ handleReset
    \/ handleLlm1SendMessage
    \/ handleLlm2SendMessage
    \/ \E side \in Sides, model \in ModelChoices : onModelChange(side, model)
    \/ \E side \in Sides, t \in TemperatureChoices : onTemperatureChange(side, t)
    \/ \E side \in Sides, n \in MaxTokensChoices : onMaxTokensChange(side, n)
    \/ \E side \in Sides, p \in SystemPromptChoices : onSystemPromptChange(side, p)
    \/ Tick

Spec == Init /\ [][Next]_vars

(***************************************************************************)
(* formatMessagesForAPI (api.ts).  A content is a string, modelled as the  *)
(* sequence of its characters; an entry of the result is                   *)
(* [role, content].                                                        *)
(***************************************************************************)
maxHistory == 20

IsSpace(ch) == ch = " "

RECURSIVE TrimStart(_)
TrimStart(s) ==
    IF s # <<>> /\ IsSpace(Head(s)) THEN TrimStart(Tail(s)) ELSE s

RECURSIVE TrimEnd(_)
TrimEnd(s) ==
    IF s # <<>> /\ IsSpace(s[Len(s)]) THEN TrimEnd(SubSeq(s, 1, Len(s) - 1)) ELSE s

\* String.prototype.trim
Trim(s) == TrimEnd(TrimStart(s))

\* A string in a condition: true unless empty.
Truthy(s) == s # <<>>

Max(a, b) == IF a >= b THEN a ELSE b

\* messages.slice(1)
SliceFrom1(messages) == SubSeq(messages, 2, Len(messages))

\* messages.slice(-n) taken for the whole array.
SliceLast_all(messages, n) == messages

\* messages.slice(-n)
SliceLast(messages, n) ==
    IF Len(messages) <= n THEN messages
    ELSE SubSeq(messages, Len(messages) - n + 1, Len(messages))

\* The loop body pushing the "assistant" entry before the "user" entry.
PushPair_assistantFirst(userMsgs, asstMsgs, i) ==
    (IF i <= Len(asstMsgs) /\ Truthy(Trim(asstMsgs[i].content))
     THEN << [role |-> "assistant", content |-> asstMsgs[i].content] >> ELSE <<>>)
    \o
    (IF i <= Len(userMsgs) /\ Truthy(Trim(userMsgs[i].content))
     THEN << [role |-> "user", content |-> userMsgs[i].content] >> ELSE <<>>)

\* The loop body for index i (1-based): push the "user" entry, then the
\* "assistant" entry, each only when it exists and its content.trim() is truthy.
PushPair(userMsgs, asstMsgs, i) ==
    (IF i <= Len(userMsgs) /\ Truthy(Trim(userMsgs[i].content))
     THEN << [role |-> "user", content |-> userMsgs[i].content] >> ELSE <<>>)
    \o
    (IF i <= Len(asstMsgs) /\ Truthy(Trim(asstMsgs[i].content))
     THEN << [role |-> "assistant", content |-> asstMsgs[i].content] >> ELSE <<>>)

\* for (let i = 0; i < maxPairs; i++) { ... }
RECURSIVE PairLoop(_, _, _, _)
PairLoop(userMsgs, asstMsgs, i, maxPairs) ==
    IF i > maxPairs THEN <<>>
    ELSE PushPair(userMsgs, asstMsgs, i) \o PairLoop(userMsgs, asstMsgs, i + 1, maxPairs)

\* while (history.length > 0 && history[history.length - 1].role === 'assistant') history.pop()
RECURSIVE PopTrailingAssistant(_)
PopTrailingAssistant(history) ==
    IF history # <<>> /\ history[Len(history)].role = "assistant"
    THEN PopTrailingAssistant(SubSeq(history, 1, Len(history) - 1))
    ELSE history

\* "Ensure the last message is a user message": only when the last recent
\* message of the other side has non-blank content.
EnsureLastUser(history, userMsgs) ==
    IF Len(userMsgs) > 0 /\ Truthy(Trim(userMsgs[Len(userMsgs)].content))
    THEN Append(PopTrailingAssistant(history),
                [role |-> "user", content |-> userMsgs[Len(userMsgs)].content])
    ELSE history

\* The branch currentSide === 'llm1': llm2's messages are the "user" input.
HistoryAsLlm1(recentLlm1, recentLlm2) ==
    LET maxPairs == Max(Len(recentLlm1), Len(recentLlm2))
        history == PairLoop(recentLlm2, recentLlm1, 1, maxPairs)
    IN  EnsureLastUser(history, recentLlm2)

\* The else branch without its "Ensure the last message is a user message".
HistoryAsLlm2_loopOnly(recentLlm1, recentLlm2) ==
    PairLoop(recentLlm1, recentLlm2, 1, Max(Len(recentLlm1), Len(recentLlm2)))

\* The else branch: llm1's messages are the "user" input.
HistoryAsLlm2(recentLlm1, recentLlm2) ==
    LET maxPairs == Max(Len(recentLlm1), Len(recentLlm2))
        history == PairLoop(recentLlm1, recentLlm2, 1, maxPairs)
    IN  EnsureLastUser(history, recentLlm1)

IsKept(msg) == Truthy(msg.content) /\ Truthy(Trim(msg.content))

\* history.filter(msg => msg.content && msg.content.trim())
FilterHistory(history) == SelectSeq(history, IsKept)

\* filteredHistory.some(msg => msg.role === 'user')
HasUserMessage(history) == \E i \in 1..Len(history) : history[i].role = "user"

\* Returns the filtered history whether or not it holds a "user" entry.
formatMessagesForAPI_noUserCheck(l1, l2, currentSide) ==
    LET recentLlm1 == SliceLast(SliceFrom1(l1), maxHistory)
        recentLlm2 == SliceLast(SliceFrom1(l2), maxHistory)
        history == IF currentSide = "llm1"
                   THEN HistoryAsLlm1(recentLlm1, recentLlm2)
                   ELSE HistoryAsLlm2(recentLlm1, recentLlm2)
    IN  FilterHistory(history)

formatMessagesForAPI(l1, l2, currentSide) ==
    LET recentLlm1 == SliceLast(SliceFrom1(l1), maxHistory)
        recentLlm2 == SliceLast(SliceFrom1(l2), maxHistory)
        history == IF currentSide = "llm1"
                   THEN HistoryAsLlm1(recentLlm1, recentLlm2)
                   ELSE HistoryAsLlm2(recentLlm1, recentLlm2)
        filteredHistory == FilterHistory(history)
    IN  IF HasUserMessage(filteredHistory) THEN filteredHistory ELSE <<>>

\* The contents the logs are drawn from: empty, blank, plain, padded.
ContentChoices == { <<>>, <<" ">>, <<"a">>, <<" ", "b">> }

\* Every log of n entries over ContentChoices; an entry's id is its position.
LogsOfLen(n) ==
    { [i \in 1..n |-> [id |-> i, content |-> c[i]]] : c \in [1..n -> ContentChoices] }

LogChoices == UNION { LogsOfLen(n) : n \in 0..MaxLogLen }

FmtInit ==
    /\ fmtLlm1 \in LogChoices
    /\ fmtLlm2 \in LogChoices
    /\ fmtSide \in Sides
    /\ fmtResult = <<>>
    /\ fmtPc = "call"

\* One call of formatMessagesForAPI.
FormatCall ==
    /\ fmtPc = "call"
    /\ fmtResult' = formatMessagesForAPI(fmtLlm1, fmtLlm2, fmtSide)
    /\ fmtPc' = "return"
    /\ UNCHANGED <<fmtLlm1, fmtLlm2, fmtSide>>
    /\ UNCHANGED <<uiVars, genVars, stVars, orVars>>

\* The page variables while another specification runs.
UiIdle ==
    /\ topic = Nil
    /\ startingLlm = Nil
    /\ isRunning = FALSE
    /\ currentTurn = Nil
    /\ turnCount = 0
    /\ llm1Messages = <<>>
    /\ llm2Messages = <<>>
    /\ llm1Config = Nil
    /\ llm2Config = Nil
    /\ isLlm1Typing = FALSE
    /\ isLlm2Typing = FALSE
    /\ now = 0
    /\ lastOp = "init"
    /\ edits = 0

InitFormat == UiIdle /\ FmtInit /\ GenIdle /\ StIdle /\ OrIdle

NextFormat == FormatCall

SpecFormat == InitFormat /\ [][NextFormat]_vars

(***************************************************************************)
(* formatMessagesForAPI on logs longer than the window (specification      *)
(* SpecWindow): a greeting, up to MaxOlder entries that precede the window *)
(* of maxHistory entries, and the window itself.  The older entries carry  *)
(* a content no entry of the window has.                                   *)
(***************************************************************************)
OlderContent == <<"o", "l", "d">>

\* A log of 1 + older + maxHistory entries; the entries of the window are
\* blank or "new" by turns from the given offset, the newest one is `newest`.
LongLog(older, offset, newest) ==
    [i \in 1..(1 + older + maxHistory) |->
        [id |-> i,
         content |-> IF i = 1 THEN <<"greeting">>
                     ELSE IF i <= 1 + older THEN OlderContent
                     ELSE IF i = 1 + older + maxHistory THEN newest
                     ELSE IF (i + offset) % 3 = 0 THEN <<" ">>
                     ELSE <<"n", "e", "w">>]]

LongLogChoices ==
    { LongLog(older, offset, newest) :
        older \in 0..MaxOlder, offset \in 0..1, newest \in {<<" ">>, <<"z">>} }
    \cup LogsOfLen(2)

WindowInit ==
    /\ fmtLlm1 \in LongLogChoices
    /\ fmtLlm2 \in LongLogChoices
    /\ fmtSide \in Sides
    /\ fmtResult = <<>>
    /\ fmtPc = "call"

InitWindow == UiIdle /\ WindowInit /\ GenIdle /\ StIdle /\ OrIdle

SpecWindow == InitWindow /\ [][NextFormat]_vars

(***************************************************************************)
(* One blocking generation.  A text (a content, an error message) is a     *)
(* sequence of tokens; a content is the sequence of its characters, an     *)
(* error message the sequence of the phrases the code tests with includes. *)
(***************************************************************************)
Includes(text, phrase) == \E i \in 1..Len(text) : text[i] = phrase

\* ---- llmService: generateResponse ----
\* model.toLowerCase().startsWith('groq-') || includes('llama') || includes('mixtral')
IsGroq(model) == model \in {"groq-llama-8b", "groq-mixtral", "deepseek-llama"}

\* model.toLowerCase().startsWith('deepseek')
IsDeepSeek(model) == model \in {"deepseek-chat", "deepseek-llama"}

ModelIds == {"groq-llama-8b", "groq-mixtral", "deepseek-chat", "deepseek-llama", "gpt-4"}

\* What the provider's SDK does with the call: it throws an error (with an
\* HTTP status, 0 for none), or completes with a content (null when absent).
ProviderOutcomes ==
    { [throws |-> TRUE, status |-> 0, message |-> <<"connection refused">>,
       isNull |-> TRUE, content |-> <<>>],
      [throws |-> TRUE, status |-> 404, message |-> <<"The model", "does not exist">>,
       isNull |-> TRUE, content |-> <<>>],
      [throws |-> TRUE, status |-> 401, message |-> <<"Unauthorized">>,
       isNull |-> TRUE, content |-> <<>>],
      [throws |-> TRUE, status |-> 0, message |-> <<>>,
       isNull |-> TRUE, content |-> <<>>] }
    \cup
    { [throws |-> FALSE, status |-> 0, message |-> <<>>, isNull |-> n, content |-> c] :
        n \in {FALSE}, c \in ContentChoices }
    \cup
    { [throws |-> FALSE, status |-> 0, message |-> <<>>, isNull |-> TRUE, content |-> <<>>] }

Thrown(status, message) ==
    [thrown |-> TRUE, status |-> status, message |-> message,
     success |-> FALSE, content |-> <<>>, hasError |-> FALSE, error |-> <<>>]

Returned(success, content, hasError, error) ==
    [thrown |-> FALSE, status |-> 0, message |-> <<>>,
     success |-> success, content |-> content, hasError |-> hasError, error |-> error]

\* The Groq branch: key check, API call, empty/whitespace check, trimmed result.
GroqBranch(keys, outcome) ==
    IF "groq" \notin keys
    THEN Thrown(0, <<"GROQ_API_KEY is not configured">>)
    ELSE IF outcome.throws
    THEN Thrown(0, <<"Groq API error:">> \o
                   (IF Truthy(outcome.message) THEN outcome.message ELSE <<"Unknown error">>))
    ELSE IF outcome.isNull \/ ~Truthy(outcome.content) \/ Trim(outcome.content) = <<>>
    THEN Returned(FALSE, <<"Error: Groq API returned empty response">>,
                  TRUE, <<"Empty response from Groq API">>)
    ELSE Returned(TRUE, Trim(outcome.content), FALSE, <<>>)

\* The DeepSeek branch: content || 'No response generated', success true.
DeepSeekBranch(keys, outcome) ==
    IF "deepseek" \notin keys
    THEN Thrown(0, <<"DEEPSEEK_API_KEY is not configured">>)
    ELSE IF outcome.throws
    THEN Thrown(0, <<"DeepSeek API error:">> \o
                   (IF Truthy(outcome.message) THEN outcome.message ELSE <<"Unknown error">>))
    ELSE Returned(TRUE,
                  IF outcome.isNull \/ ~Truthy(outcome.content)
                  THEN <<"No response generated">> ELSE outcome.content,
                  FALSE, <<>>)

\* The OpenAI branch: createLLM (key check), llm.invoke, response.content as is.
OpenAIBranch(keys, outcome) ==
    IF "openai" \notin keys
    THEN Thrown(0, <<"OpenAI API key is not configured">>)
    ELSE IF outcome.throws
    THEN Thrown(outcome.status, outcome.message)
    ELSE Returned(TRUE, outcome.content, FALSE, <<>>)

\* The body of the try block of generateResponse.
GenerateTry(model, keys, outcome) ==
    IF model = Nil
    THEN Thrown(0, <<"Cannot read properties of undefined">>)
    ELSE IF IsGroq(model) THEN GroqBranch(keys, outcome)
    ELSE IF IsDeepSeek(model) THEN DeepSeekBranch(keys, outcome)
    ELSE OpenAIBranch(keys, outcome)

\* The catch block of generateResponse: the message, rewritten for DeepSeek
\* on 404 / 401, returned as {content, success: false, error}.
GenerateCatch(model, err) ==
    LET errorMessage == IF Truthy(err.message) THEN err.message
                        ELSE <<"Failed to generate response">>
        notFound == err.status = 404 \/ Includes(errorMessage, "does not exist")
                    \/ Includes(errorMessage, "MODEL_NOT_FOUND")
        unauthorized == err.status = 401 \/ Includes(errorMessage, "Unauthorized")
                        \/ Includes(errorMessage, "Invalid API key")
    IN  IF (notFound \/ unauthorized) /\ model = Nil
        THEN Thrown(0, <<"Cannot read properties of undefined">>)
        ELSE LET final == IF notFound /\ IsDeepSeek(model)
                          THEN <<"DeepSeek model", "not found (404)">>
                          ELSE IF ~notFound /\ unauthorized /\ IsDeepSeek(model)
                          THEN <<"Invalid DeepSeek API key (401)">>
                          ELSE errorMessage
             IN  Returned(FALSE, <<"Error:">> \o final, TRUE, final)

\* generateResponse without its catch block: what the try block throws escapes.
generateResponse_noCatch(model, keys, outcome) == GenerateTry(model, keys, outcome)

generateResponse(model, keys, outcome) ==
    LET r == GenerateTry(model, keys, outcome)
    IN  IF r.thrown THEN GenerateCatch(model, r) ELSE r

\* ---- routes/llm.js: POST /generate ----
JsonBody(has, content, success, error) ==
    [kind |-> "json", has |-> has, content |-> content, success |-> success, error |-> error]

Response(status, body) == [net |-> "response", status |-> status, body |-> body]

ErrorResponse(status, error) == Response(status, JsonBody({"error"}, <<>>, FALSE, error))

ServiceName(model) ==
    IF IsGroq(model) THEN "groq" ELSE IF IsDeepSeek(model) THEN "deepseek" ELSE "openai"

routeGenerate(in) ==
    IF in.model = Nil THEN ErrorResponse(400, <<"Model is required">>)
    ELSE IF ~in.historyIsArray
    THEN ErrorResponse(400, <<"Conversation history must be an array">>)
    ELSE IF ServiceName(in.model) \notin in.keys
    THEN ErrorResponse(500, <<"API key not configured for", ServiceName(in.model)>>)
    ELSE LET result == generateResponse(in.model, in.keys, in.outcome)
         IN  IF result.thrown
             THEN ErrorResponse(500, IF Truthy(result.message) THEN result.message
                                     ELSE <<"Internal server error">>)
             ELSE IF ~result.success
             THEN Response(500, JsonBody({"error", "content"}, result.content, FALSE,
                                         IF result.hasError /\ Truthy(result.error)
                                         THEN result.error
                                         ELSE <<"Failed to generate response">>))
             ELSE Response(200, JsonBody({"content", "success"}, result.content, TRUE, <<>>))

\* ---- api.ts: generateLLMResponse ----
StatusText(status) ==
    CASE status = 400 -> "400" [] status = 404 -> "404" [] status = 429 -> "429"
      [] status = 500 -> "500" [] OTHER -> "200"

IsOk(status) == status >= 200 /\ status <= 299

\* The body of the try block of generateLLMResponse.
ClientTry(http) ==
    IF http.net = "reject" THEN Thrown(0, <<"Failed to fetch">>)
    ELSE IF ~IsOk(http.status)
    THEN IF http.body.kind = "null"
         THEN Thrown(0, <<"Cannot read properties of null">>)
         ELSE LET hasErr == http.body.kind = "json" /\ "error" \in http.body.has
                            /\ Truthy(http.body.error)
                  errorMessage == IF hasErr THEN http.body.error
                                  ELSE <<"HTTP error! status:", StatusText(http.status)>>
              IN  IF Includes(errorMessage, "does not exist")
                     \/ Includes(errorMessage, "MODEL_NOT_FOUND")
                  THEN Thrown(0, errorMessage \o <<"Tips:">>)
                  ELSE IF Includes(errorMessage, "quota") \/ Includes(errorMessage, "429")
                          \/ Includes(errorMessage, "exceeded")
                  THEN Thrown(0, <<"OpenAI API Quota Exceeded">>)
                  ELSE Thrown(0, errorMessage)
    ELSE IF http.body.kind = "unparseable"
    THEN Thrown(0, <<"Unexpected token in JSON">>)
    ELSE IF http.body.kind = "null"
    THEN [Returned(FALSE, <<>>, FALSE, <<>>) EXCEPT !.status = -1]
    ELSE Returned("success" \in http.body.has /\ http.body.success,
                  IF "content" \in http.body.has THEN http.body.content ELSE <<>>,
                  "error" \in http.body.has, http.body.error)

\* The catch block of generateLLMResponse.
ClientCatch(err) ==
    Returned(FALSE, <<"Error:">> \o err.message, TRUE, err.message)

\* generateLLMResponse without its catch block.
generateLLMResponse_noCatch(http) == ClientTry(http)

generateLLMResponse(http) ==
    LET r == ClientTry(http)
    IN  IF r.thrown THEN ClientCatch(r) ELSE r

\* data === null returned as is by "return data".
IsNullResult(r) == ~r.thrown /\ r.status = -1

\* ---- the exchange ----
KeySets == SUBSET {"groq", "deepseek", "openai"}

\* Responses that do not come from routes/llm.js: a proxy or a server that is
\* down or answers something else.
ForeignResponses ==
    { Response(404, [kind |-> "unparseable", has |-> {}, content |-> <<>>,
                     success |-> FALSE, error |-> <<>>]),
      Response(429, JsonBody({}, <<>>, FALSE, <<>>)),
      Response(500, [kind |-> "null", has |-> {}, content |-> <<>>,
                     success |-> FALSE, error |-> <<>>]),
      Response(500, JsonBody({"error"}, <<>>, FALSE, <<"MODEL_NOT_FOUND">>)),
      Response(200, [kind |-> "unparseable", has |-> {}, content |-> <<>>,
                     success |-> FALSE, error |-> <<>>]),
      Response(200, [kind |-> "null", has |-> {}, content |-> <<>>,
                     success |-> FALSE, error |-> <<>>]) }

NoHttp == Response(0, JsonBody({}, <<>>, FALSE, <<>>))

GenInit ==
    /\ genIn \in [model : ModelIds \cup {Nil}, keys : KeySets,
                  historyIsArray : BOOLEAN, outcome : ProviderOutcomes]
    /\ genSrv = Returned(FALSE, <<>>, FALSE, <<>>)
    /\ genHttp = NoHttp
    /\ genOut = Returned(FALSE, <<>>, FALSE, <<>>)
    /\ genPc = "service"

\* generateResponse called with the request's model, the configured keys and
\* the provider's behaviour.
ServiceCall ==
    /\ genPc = "service"
    /\ genSrv' = generateResponse(genIn.model, genIn.keys, genIn.outcome)
    /\ genPc' = "route"
    /\ UNCHANGED <<genIn, genHttp, genOut>>
    /\ UNCHANGED <<uiVars, fmtVars, stVars, orVars>>

\* POST /generate answers the request.
RouteGenerate ==
    /\ genPc = "route"
    /\ genHttp' = routeGenerate(genIn)
    /\ genPc' = "network"
    /\ UNCHANGED <<genIn, genSrv, genOut>>
    /\ UNCHANGED <<uiVars, fmtVars, stVars, orVars>>

\* The network delivers the answer, fails, or something else answers.
Network ==
    /\ genPc = "network"
    /\ \/ UNCHANGED genHttp
       \/ genHttp' = [NoHttp EXCEPT !.net = "reject"]
       \/ genHttp' \in ForeignResponses
    /\ genPc' = "client"
    /\ UNCHANGED <<genIn, genSrv, genOut>>
    /\ UNCHANGED <<uiVars, fmtVars, stVars, orVars>>

\* generateLLMResponse returns to its caller.
ClientCall ==
    /\ genPc = "client"
    /\ genOut' = generateLLMResponse(genHttp)
    /\ genPc' = "done"
    /\ UNCHANGED <<genIn, genSrv, genHttp>>
    /\ UNCHANGED <<uiVars, fmtVars, stVars, orVars>>

InitGen == UiIdle /\ FmtIdle /\ GenInit /\ StIdle /\ OrIdle

NextGen == ServiceCall \/ RouteGenerate \/ Network \/ ClientCall

SpecGen == InitGen /\ [][NextGen]_vars

(***************************************************************************)
(* generateLLMResponseStream (api.ts) against POST /stream.                *)
(*                                                                         *)
(* The event stream is a sequence of bytes.  The text of a frame is        *)
(* "data: " + JSON + "\n\n" (routes/llm.js).  The JSON text of a frame     *)
(* object is written in a compact alphabet that keeps what the parser      *)
(* depends on: "{" ... "}" around the fields, c<text>; for "content",      *)
(* e<text>; for "error", T / F for "done", and inside a text the escape    *)
(* \n for a line feed, so that a raw line feed never occurs in a frame.    *)
(***************************************************************************)
LF == "<LF>"
BS == "\\"

DataPrefix == <<"d", "a", "t", "a", ":", " ">>

\* The first position of ch in s, 0 when absent.
RECURSIVE IndexFrom(_, _, _)
IndexFrom(s, ch, i) ==
    IF i > Len(s) THEN 0 ELSE IF s[i] = ch THEN i ELSE IndexFrom(s, ch, i + 1)

IndexOf(s, ch) == IndexFrom(s, ch, 1)

\* JSON.stringify of a string's characters.
RECURSIVE Escape(_)
Escape(text) ==
    IF text = <<>> THEN <<>>
    ELSE (IF Head(text) = LF THEN <<BS, "n">> ELSE <<Head(text)>>) \o Escape(Tail(text))

\* The inverse, for a text JSON.parse accepts; <<"bad">> marks a text it rejects.
BadText == <<"bad">>

RECURSIVE Unescape(_)
Unescape(text) ==
    IF text = <<>> THEN <<>>
    ELSE IF Head(text) = LF THEN BadText
    ELSE IF Head(text) = BS
    THEN IF Len(text) >= 2 /\ text[2] = "n"
         THEN LET rest == Unescape(SubSeq(text, 3, Len(text)))
              IN  IF rest = BadText THEN BadText ELSE <<LF>> \o rest
         ELSE BadText
    ELSE LET rest == Unescape(Tail(text))
         IN  IF rest = BadText THEN BadText ELSE <<Head(text)>> \o rest

FrameObject(has, content, error, done) ==
    [has |-> has, content |-> content, error |-> error, done |-> done]

\* JSON.stringify of a frame object.
Stringify(obj) ==
    <<"{">>
    \o (IF "content" \in obj.has THEN <<"c">> \o Escape(obj.content) \o <<";">> ELSE <<>>)
    \o (IF "error" \in obj.has THEN <<"e">> \o Escape(obj.error) \o <<";">> ELSE <<>>)
    \o (IF "done" \in obj.has THEN <<IF obj.done THEN "T" ELSE "F">> ELSE <<>>)
    \o <<"}">>

NotJson == [ok |-> FALSE, has |-> {}, content |-> <<>>, error |-> <<>>, done |-> FALSE]

\* The fields between the braces, read left to right into acc.
RECURSIVE ParseFields(_, _)
ParseFields(s, acc) ==
    IF s = <<>> THEN acc
    ELSE IF Head(s) \in {"T", "F"}
    THEN IF Len(s) = 1
         THEN [acc EXCEPT !.has = @ \cup {"done"}, !.done = (Head(s) = "T")]
         ELSE NotJson
    ELSE IF Head(s) \in {"c", "e"}
    THEN LET end == IndexOf(s, ";")
             text == Unescape(SubSeq(s, 2, end - 1))
             field == IF Head(s) = "c" THEN "content" ELSE "error"
         IN  IF end = 0 \/ text = BadText \/ field \in acc.has \/ "done" \in acc.has
                \/ (field = "content" /\ "error" \in acc.has)
             THEN NotJson
             ELSE ParseFields(SubSeq(s, end + 1, Len(s)),
                              IF field = "content"
                              THEN [acc EXCEPT !.has = @ \cup {"content"}, !.content = text]
                              ELSE [acc EXCEPT !.has = @ \cup {"error"}, !.error = text])
    ELSE NotJson

\* JSON.parse: ok is false where it throws.
ParseJson(s) ==
    IF Len(s) >= 2 /\ s[1] = "{" /\ s[Len(s)] = "}"
    THEN ParseFields(SubSeq(s, 2, Len(s) - 1), [NotJson EXCEPT !.ok = TRUE])
    ELSE NotJson

\* buffer.split('\n'): never empty; its last element is the unfinished line.
RECURSIVE SplitLines(_)
SplitLines(s) ==
    LET i == IndexOf(s, LF)
    IN  IF i = 0 THEN <<s>>
        ELSE <<SubSeq(s, 1, i - 1)>> \o SplitLines(SubSeq(s, i + 1, Len(s)))

\* line.startsWith('data: ')
StartsWithData(line) ==
    Len(line) >= Len(DataPrefix) /\ SubSeq(line, 1, Len(DataPrefix)) = DataPrefix

\* line.slice(6)
AfterPrefix(line) == SubSeq(line, Len(DataPrefix) + 1, Len(line))

Call(cb, text) == [cb |-> cb, text |-> text]

\* The body of the try block for one parsed frame: error ends the call,
\* content is handed on, done ends the call.
FrameStep_errorNoReturn(data, calls) ==
    LET c1 == IF "error" \in data.has /\ Truthy(data.error)
              THEN Append(calls, Call("error", data.error)) ELSE calls
        c2 == IF "content" \in data.has /\ Truthy(data.content)
              THEN Append(c1, Call("chunk", data.content)) ELSE c1
    IN  IF "done" \in data.has /\ data.done
        THEN [calls |-> Append(c2, Call("complete", <<>>)), returned |-> TRUE]
        ELSE [calls |-> c2, returned |-> FALSE]

FrameStep(data, calls) ==
    IF "error" \in data.has /\ Truthy(data.error)
    THEN [calls |-> Append(calls, Call("error", data.error)), returned |-> TRUE]
    ELSE LET c2 == IF "content" \in data.has /\ Truthy(data.content)
                   THEN Append(calls, Call("chunk", data.content)) ELSE calls
         IN  IF "done" \in data.has /\ data.done
             THEN [calls |-> Append(c2, Call("complete", <<>>)), returned |-> TRUE]
             ELSE [calls |-> c2, returned |-> FALSE]

\* The loop over the lines with a frame that does not parse treated as fatal:
\* onError and return.
RECURSIVE ProcessLines_fatalParse(_, _)
ProcessLines_fatalParse(lines, calls) ==
    IF lines = <<>> THEN [calls |-> calls, returned |-> FALSE]
    ELSE LET line == Head(lines)
             data == ParseJson(AfterPrefix(line))
         IN  IF ~StartsWithData(line)
             THEN ProcessLines_fatalParse(Tail(lines), calls)
             ELSE IF ~data.ok
             THEN [calls |-> Append(calls, Call("error", <<"Unexpected token in JSON">>)),
                   returned |-> TRUE]
             ELSE LET r == FrameStep(data, calls)
                  IN  IF r.returned THEN r
                      ELSE ProcessLines_fatalParse(Tail(lines), r.calls)

\* for (const line of lines): lines that are no data lines and frames that do
\* not parse are skipped.
RECURSIVE ProcessLines(_, _)
ProcessLines(lines, calls) ==
    IF lines = <<>> THEN [calls |-> calls, returned |-> FALSE]
    ELSE LET line == Head(lines)
             data == ParseJson(AfterPrefix(line))
         IN  IF ~StartsWithData(line) \/ ~data.ok
             THEN ProcessLines(Tail(lines), calls)
             ELSE LET r == FrameStep(data, calls)
                  IN  IF r.returned THEN r ELSE ProcessLines(Tail(lines), r.calls)

\* buffer = '' in place of lines.pop(): the unfinished line is dropped.
RemainingBuffer_dropped(lines) == <<>>

\* buffer = lines.pop() || ''
RemainingBuffer(lines) == lines[Len(lines)]

\* The lines left in the array after lines.pop().
CompleteLines(lines) == SubSeq(lines, 1, Len(lines) - 1)

\* ---- bytes ----
\* UTF-8: "é" takes two bytes, every other character used here one.
Utf8Char(ch) == IF ch = "é" THEN <<"xC3", "xA9">> ELSE <<ch>>

RECURSIVE Utf8(_)
Utf8(text) == IF text = <<>> THEN <<>> ELSE Utf8Char(Head(text)) \o Utf8(Tail(text))

Replacement == "U+FFFD"

\* TextDecoder.decode(value, { stream: true }): the bytes of an unfinished
\* character stay in the decoder for the next call.
RECURSIVE DecodeStream(_)
DecodeStream(bytes) ==
    IF bytes = <<>> THEN [text |-> <<>>, pending |-> <<>>]
    ELSE IF Head(bytes) = "xC3"
    THEN IF Len(bytes) = 1 THEN [text |-> <<>>, pending |-> bytes]
         ELSE IF bytes[2] = "xA9"
         THEN LET r == DecodeStream(SubSeq(bytes, 3, Len(bytes)))
              IN  [r EXCEPT !.text = <<"é">> \o @]
         ELSE LET r == DecodeStream(Tail(bytes))
              IN  [r EXCEPT !.text = <<Replacement>> \o @]
    ELSE LET r == DecodeStream(Tail(bytes))
         IN  [r EXCEPT !.text = <<IF Head(bytes) = "xA9" THEN Replacement
                                  ELSE Head(bytes)>> \o @]

\* TextDecoder.decode(value): an unfinished character at the end is replaced.
Decode(bytes) ==
    LET r == DecodeStream(bytes)
    IN  r.text \o (IF r.pending = <<>> THEN <<>> ELSE <<Replacement>>)

\* ---- the backend ----
\* res.write(`data: ${JSON.stringify(obj)}\n\n`)
WriteFrame(obj) == DataPrefix \o Stringify(obj) \o <<LF, LF>>

ContentFrame(text) == FrameObject({"content", "done"}, text, <<>>, FALSE)
DoneFrame == FrameObject({"content", "done"}, <<>>, <<>>, TRUE)
ErrorFrame == FrameObject({"error", "done"}, <<>>, <<"E">>, TRUE)

\* What may travel as one frame: a frame the route writes, or a data line whose
\* JSON is cut short (kind "malformed").
FrameChoices ==
    { [kind |-> "frame", obj |-> ContentFrame(<<"a">>)],
      [kind |-> "frame", obj |-> ContentFrame(<<"é", LF>>)],
      [kind |-> "frame", obj |-> DoneFrame],
      [kind |-> "frame", obj |-> ErrorFrame],
      [kind |-> "malformed", obj |-> ContentFrame(<<"a">>)] }

FrameText(f) ==
    IF f.kind = "frame" THEN WriteFrame(f.obj)
    ELSE DataPrefix \o <<"{", "c", "a">> \o <<LF, LF>>

RECURSIVE WireOf(_)
WireOf(frames) ==
    IF frames = <<>> THEN <<>> ELSE Utf8(FrameText(Head(frames))) \o WireOf(Tail(frames))

FrameSeqs == UNION { [1..n -> FrameChoices] : n \in 0..MaxFrames }

\* The answers of POST /generate the 404 fallback may meet.
SuccessBody(content) == Response(200, JsonBody({"content", "success"}, content, TRUE, <<>>))

FallbackHttps ==
    { SuccessBody(c) : c \in {<<>>, <<"a">>, <<"H", "i">>, <<"a", LF, "b">>} }
    \cup { ErrorResponse(500, <<"API key not configured for", "openai">>),
           Response(500, JsonBody({}, <<>>, FALSE, <<>>)),
           Response(200, JsonBody({"content"}, <<"a">>, FALSE, <<>>)),
           [NoHttp EXCEPT !.net = "reject"] }
    \cup { h \in ForeignResponses : h.status = 200 }

Backend(kind, frames, end, fallback) ==
    [kind |-> kind, frames |-> frames, wire |-> WireOf(frames), end |-> end,
     fallback |-> fallback]

\* fetch rejects; 404; another non-OK status with or without an event-stream
\* body or with a JSON body; OK without a body; OK with an event stream that
\* is closed at its end or breaks off.
Backends ==
    { Backend("reject", <<>>, "close", NoHttp) }
    \cup { Backend("404", <<>>, "close", h) : h \in FallbackHttps }
    \cup { Backend("errorSse", f, e, NoHttp) :
             f \in { g \in FrameSeqs : Len(g) <= 1 }, e \in {"close", "nobody"} }
    \cup { Backend("errorJson", <<>>, "close", h) :
             h \in { x \in ForeignResponses : x.status = 500 }
                   \cup { ErrorResponse(500, <<"upstream failed">>) } }
    \cup { Backend("noBody", <<>>, "close", NoHttp) }
    \cup { Backend("stream", f, e, NoHttp) : f \in FrameSeqs, e \in {"close", "abort"} }

HttpErrorText(status) == <<"HTTP error! status:", status>>

Finish(calls) ==
    /\ stCalls' = calls
    /\ stPc' = "done"

\* The non-OK branch for a text/event-stream answer: one read, the first
\* data line carrying an error decides; anything else is the HTTP error.
ErrorSseCalls(text) ==
    LET lines == SplitLines(text)
        RECURSIVE Scan(_)
        Scan(ls) ==
            IF ls = <<>> THEN <<>>
            ELSE IF ~StartsWithData(Head(ls)) THEN Scan(Tail(ls))
            ELSE LET data == ParseJson(AfterPrefix(Head(ls)))
                 IN  IF ~data.ok THEN <<>>
                     ELSE IF "error" \in data.has /\ Truthy(data.error)
                     THEN data.error
                     ELSE Scan(Tail(ls))
        found == Scan(lines)
    IN  IF found # <<>> THEN <<Call("error", found)>>
        ELSE <<Call("error", HttpErrorText("500"))>>

\* The non-OK branch for any other answer: response.json().catch(() => ({})).
ErrorJsonCalls(http) ==
    IF http.body.kind = "null"
    THEN <<Call("error", <<"Cannot read properties of null">>)>>
    ELSE IF http.body.kind = "json" /\ "error" \in http.body.has /\ Truthy(http.body.error)
    THEN <<Call("error", http.body.error)>>
    ELSE <<Call("error", HttpErrorText("500"))>>

StInit ==
    /\ stBackend \in Backends
    /\ stPos = 0
    /\ stDecoder = <<>>
    /\ stBuffer = <<>>
    /\ stI = 0
    /\ stCalls = <<>>
    /\ stPc = "fetch"

StFrame == UNCHANGED <<uiVars, fmtVars, genVars, orVars>>

\* await fetch(...) and the checks up to the read loop.
StreamFetch ==
    /\ stPc = "fetch"
    /\ UNCHANGED <<stBackend, stDecoder, stBuffer, stI>>
    /\ StFrame
    /\ CASE stBackend.kind = "reject" ->
              /\ Finish(<<Call("error", <<"Failed to fetch">>)>>)
              /\ UNCHANGED stPos
         [] stBackend.kind = "404" ->
              /\ stPc' = "fallback"
              /\ UNCHANGED <<stCalls, stPos>>
         [] stBackend.kind = "errorSse" ->
              IF stBackend.end = "nobody"
              THEN /\ Finish(<<Call("error", HttpErrorText("500"))>>)
                   /\ UNCHANGED stPos
              ELSE \E n \in 0..Len(stBackend.wire) :
                      /\ stPos' = n
                      /\ Finish(ErrorSseCalls(Decode(SubSeq(stBackend.wire, 1, n))))
         [] stBackend.kind = "errorJson" ->
              /\ Finish(ErrorJsonCalls(stBackend.fallback))
              /\ UNCHANGED stPos
         [] stBackend.kind = "noBody" ->
              /\ Finish(<<Call("error", <<"Failed to get response stream">>)>>)
              /\ UNCHANGED stPos
         [] stBackend.kind = "stream" ->
              /\ stPc' = "read"
              /\ UNCHANGED <<stCalls, stPos>>

\* The 404 fallback: await generateLLMResponse(request), then the loop or onError.
StreamFallback ==
    /\ stPc = "fallback"
    /\ UNCHANGED <<stBackend, stDecoder, stBuffer, stI, stPos>>
    /\ StFrame
    /\ LET fallbackResponse == generateLLMResponse(stBackend.fallback)
       IN  IF IsNullResult(fallbackResponse)
           THEN Finish(<<Call("error", <<"Cannot read properties of null">>)>>)
           ELSE IF fallbackResponse.success /\ Truthy(fallbackResponse.content)
           THEN /\ stPc' = "emit"
                /\ UNCHANGED stCalls
           ELSE Finish(<<Call("error",
                              IF fallbackResponse.hasError /\ Truthy(fallbackResponse.error)
                              THEN fallbackResponse.error
                              ELSE <<"Failed to generate response">>)>>)

FallbackContent == generateLLMResponse(stBackend.fallback).content

\* One turn of the fallback loop hands the whole rest of the content on.
FallbackChunk_wholeRest(content, i) == SubSeq(content, i + 1, Len(content))

\* onChunk(content[i])
FallbackChunk(content, i) == <<content[i + 1]>>

\* One iteration of the fallback loop (onChunk, then the 15 ms wait), or the
\* onComplete that follows the last one.
StreamEmit ==
    /\ stPc = "emit"
    /\ UNCHANGED <<stBackend, stDecoder, stBuffer, stPos>>
    /\ StFrame
    /\ IF stI < Len(FallbackContent)
       THEN /\ stCalls' = Append(stCalls, Call("chunk", FallbackChunk(FallbackContent, stI)))
            /\ stI' = stI + 1
            /\ UNCHANGED stPc
       ELSE /\ Finish(Append(stCalls, Call("complete", <<>>)))
            /\ UNCHANGED stI

\* reader.read() resolves with the next n bytes: their text joins the buffer,
\* the complete lines are processed, the unfinished line stays in the buffer.
StreamRead ==
    /\ stPc = "read"
    /\ stPos < Len(stBackend.wire)
    /\ StFrame
    /\ UNCHANGED <<stBackend, stI>>
    /\ \E n \in 1..(Len(stBackend.wire) - stPos) :
          LET decoded == DecodeStream(stDecoder \o SubSeq(stBackend.wire, stPos + 1, stPos + n))
              lines == SplitLines(stBuffer \o decoded.text)
              r == ProcessLines(CompleteLines(lines), stCalls)
          IN  /\ stPos' = stPos + n
              /\ stDecoder' = decoded.pending
              /\ stBuffer' = RemainingBuffer(lines)
              /\ stCalls' = r.calls
              /\ stPc' = IF r.returned THEN "done" ELSE "read"

\* reader.read() resolves with done: onComplete, break.
StreamClosed ==
    /\ stPc = "read"
    /\ stPos = Len(stBackend.wire)
    /\ stBackend.end = "close"
    /\ StFrame
    /\ UNCHANGED <<stBackend, stDecoder, stBuffer, stI, stPos>>
    /\ Finish(Append(stCalls, Call("complete", <<>>)))

\* reader.read() rejects (the connection breaks): the outer catch calls onError.
StreamAborted ==
    /\ stPc = "read"
    /\ stBackend.end = "abort"
    /\ StFrame
    /\ UNCHANGED <<stBackend, stDecoder, stBuffer, stI, stPos>>
    /\ Finish(Append(stCalls, Call("error", <<"network error">>)))

InitStream == UiIdle /\ FmtIdle /\ GenIdle /\ StInit /\ OrIdle

NextStream ==
    \/ StreamFetch
    \/ StreamFallback
    \/ StreamEmit
    \/ StreamRead
    \/ StreamClosed
    \/ StreamAborted

SpecStream == InitStream /\ [][NextStream]_vars

(***************************************************************************)
(* The provider message lists (specification SpecRoles): what each path    *)
(* of generateResponse builds from systemPrompt and conversationHistory    *)
(* before it calls its provider.  genIn holds the two arguments, genSrv    *)
(* the paths that have built their list, genOut the list of each path.     *)
(***************************************************************************)
Paths == {"groq", "deepseek", "openai"}

\* The paths of generateStreamingResponse that call a provider; its OpenAI
\* path throws before it builds anything.
StreamPaths == {"groq-stream", "deepseek-stream"}

AllPaths == Paths \cup StreamPaths

HistoryRoles == {"user", "human", "assistant", "ai", "system", "tool"}

HistoryContents == {<<"a">>, <<"b">>}

HistoryEntries == [role : HistoryRoles, content : HistoryContents]

Histories == UNION {[1..n -> HistoryEntries] : n \in 0..MaxHistoryLen}

SystemPrompts == {<<>>, <<"s">>}

ChatMessage(role, content) == [role |-> role, content |-> content]

\* The if / else-if chain over msg.role; Nil when no branch pushes anything.
PushedRole(role) ==
    IF role = "user" \/ role = "human" THEN "user"
    ELSE IF role = "assistant" \/ role = "ai" THEN "assistant"
    ELSE IF role = "system" THEN "system"
    ELSE Nil

\* conversationHistory.forEach of a path: one message per entry some branch takes.
ForEachPushed(conversationHistory) ==
    LET taken == SelectSeq(conversationHistory, LAMBDA msg : PushedRole(msg.role) # Nil)
    IN  [i \in 1..Len(taken) |-> ChatMessage(PushedRole(taken[i].role), taken[i].content)]

\* if (systemPrompt) messages.push({role: 'system', content: systemPrompt})
SystemHead(systemPrompt) ==
    IF Truthy(systemPrompt) THEN <<ChatMessage("system", systemPrompt)>> ELSE <<>>

\* "Ensure we have at least one user message".
EnsureUser(messages) ==
    IF Len(SelectSeq(messages, LAMBDA m : m.role = "user")) = 0
    THEN Append(messages, ChatMessage("user", <<"Hello">>))
    ELSE messages

\* The Groq branch of generateResponse, up to client.chat.completions.create.
GroqMessages(systemPrompt, conversationHistory) ==
    EnsureUser(SystemHead(systemPrompt) \o ForEachPushed(conversationHistory))

\* The DeepSeek branch, up to client.chat.completions.create.
DeepSeekMessages(systemPrompt, conversationHistory) ==
    EnsureUser(SystemHead(systemPrompt) \o ForEachPushed(conversationHistory))

\* The OpenAI branch, up to llm.invoke: SystemMessage / HumanMessage /
\* AIMessage, written by the role each is sent with; nothing is appended.
OpenAIMessages(systemPrompt, conversationHistory) ==
    SystemHead(systemPrompt) \o ForEachPushed(conversationHistory)

\* The Groq branch of generateStreamingResponse, up to the provider call.
GroqStreamMessages(systemPrompt, conversationHistory) ==
    EnsureUser(SystemHead(systemPrompt) \o ForEachPushed(conversationHistory))

\* The DeepSeek branch of generateStreamingResponse, up to the provider call.
DeepSeekStreamMessages(systemPrompt, conversationHistory) ==
    EnsureUser(SystemHead(systemPrompt) \o ForEachPushed(conversationHistory))

MessagesOf(path, systemPrompt, conversationHistory) ==
    IF path = "groq" THEN GroqMessages(systemPrompt, conversationHistory)
    ELSE IF path = "deepseek" THEN DeepSeekMessages(systemPrompt, conversationHistory)
    ELSE IF path = "openai" THEN OpenAIMessages(systemPrompt, conversationHistory)
    ELSE IF path = "groq-stream" THEN GroqStreamMessages(systemPrompt, conversationHistory)
    ELSE DeepSeekStreamMessages(systemPrompt, conversationHistory)

RolesInit ==
    /\ genIn \in [systemPrompt : SystemPrompts, history : Histories]
    /\ genSrv = {}
    /\ genHttp = Nil
    /\ genOut = [p \in AllPaths |-> <<>>]
    /\ genPc = "build"

\* One path builds its list from the arguments.
BuildMessages(path) ==
    /\ genPc = "build"
    /\ path \notin genSrv
    /\ genSrv' = genSrv \cup {path}
    /\ genOut' = [genOut EXCEPT ![path] = MessagesOf(path, genIn.systemPrompt, genIn.history)]
    /\ genPc' = IF genSrv' = AllPaths THEN "built" ELSE "build"
    /\ UNCHANGED <<genIn, genHttp, uiVars, fmtVars, stVars, orVars>>

BuildGroq == BuildMessages("groq")

BuildDeepSeek == BuildMessages("deepseek")

BuildOpenAI == BuildMessages("openai")

BuildGroqStream == BuildMessages("groq-stream")

BuildDeepSeekStream == BuildMessages("deepseek-stream")

InitRoles == UiIdle /\ FmtIdle /\ RolesInit /\ StIdle /\ OrIdle

NextRoles ==
    BuildGroq \/ BuildDeepSeek \/ BuildOpenAI \/ BuildGroqStream \/ BuildDeepSeekStream

SpecRoles == InitRoles /\ [][NextRoles]_vars

(***************************************************************************)
(* One request served end to end (specification SpecServe): POST /generate *)
(* or POST /stream, the service function, the provider call as a step of   *)
(* its own, the answer, and what the client makes of it.  The variables of *)
(* the blocking generation are used: genIn the request and environment,    *)
(* genSrv the service's result and the provider calls made, genHttp the    *)
(* answer, genOut the client's result and callbacks.                       *)
(***************************************************************************)
\* README, "Supported Models" of POST /api/llm/stream.
SupportedModels == {"groq-llama-8b", "groq-mixtral", "deepseek-chat", "gpt-4"}

\* chunk.choices[0]?.delta?.content of one chunk of the provider's stream.
DeltaChoices == {<<>>, <<" ">>, <<"a">>}

\* What the provider's SDK does with a streaming call: the deltas it yields,
\* and whether the iteration then ends or throws.
ProviderStreams ==
    { [deltas |-> d, throws |-> t, message |-> IF t THEN <<"socket hang up">> ELSE <<>>] :
        d \in UNION { [1..n -> DeltaChoices] : n \in 0..MaxDeltas }, t \in BOOLEAN }

NoStream == [deltas |-> <<>>, throws |-> FALSE, message |-> <<>>]

NoOutcome == [throws |-> FALSE, status |-> 0, message |-> <<>>, isNull |-> TRUE,
              content |-> <<>>]

\* for await (const chunk of stream): onChunk for every non-empty delta.
RECURSIVE ChunksOf(_)
ChunksOf(deltas) ==
    IF deltas = <<>> THEN <<>>
    ELSE (IF Truthy(Head(deltas)) THEN <<Head(deltas)>> ELSE <<>>) \o ChunksOf(Tail(deltas))

StreamResult(thrown, message, chunks) ==
    [thrown |-> thrown, message |-> message, chunks |-> chunks]

\* generateStreamingResponse with the OpenAI branch streaming like the others.
generateStreamingResponse_openAIStreams(model, keys, pstream) ==
    IF model = Nil
    THEN StreamResult(TRUE, <<"Cannot read properties of undefined">>, <<>>)
    ELSE IF IsGroq(model) /\ "groq" \notin keys
    THEN StreamResult(TRUE, <<"GROQ_API_KEY is not configured.">>, <<>>)
    ELSE IF ~IsGroq(model) /\ IsDeepSeek(model) /\ "deepseek" \notin keys
    THEN StreamResult(TRUE, <<"DEEPSEEK_API_KEY is not configured.">>, <<>>)
    ELSE StreamResult(pstream.throws, pstream.message, ChunksOf(pstream.deltas))

\* generateStreamingResponse: the Groq and DeepSeek branches stream, every
\* other model throws; the catch block rethrows.
generateStreamingResponse(model, keys, pstream) ==
    IF model = Nil
    THEN StreamResult(TRUE, <<"Cannot read properties of undefined">>, <<>>)
    ELSE IF IsGroq(model)
    THEN IF "groq" \notin keys
         THEN StreamResult(TRUE, <<"GROQ_API_KEY is not configured.">>, <<>>)
         ELSE StreamResult(pstream.throws, pstream.message, ChunksOf(pstream.deltas))
    ELSE IF IsDeepSeek(model)
    THEN IF "deepseek" \notin keys
         THEN StreamResult(TRUE, <<"DEEPSEEK_API_KEY is not configured.">>, <<>>)
         ELSE StreamResult(pstream.throws, pstream.message, ChunksOf(pstream.deltas))
    ELSE StreamResult(TRUE, <<"Streaming not yet implemented for OpenAI models">>, <<>>)

\* Whether the service function gets as far as the provider's SDK call.
ReachesProvider(mode, model, keys) ==
    /\ model # Nil
    /\ IF IsGroq(model) THEN "groq" \in keys
       ELSE IF IsDeepSeek(model) THEN "deepseek" \in keys
       ELSE mode = "generate" /\ "openai" \in keys

ErrorFrameWith(text) == FrameObject({"error", "done"}, <<>>, text, TRUE)

AsFrame(obj) == [kind |-> "frame", obj |-> obj]

RECURSIVE ContentFrames(_)
ContentFrames(chunks) ==
    IF chunks = <<>> THEN <<>>
    ELSE <<AsFrame(ContentFrame(Head(chunks)))>> \o ContentFrames(Tail(chunks))

\* The checks both routes make before they call the service; Nil when the
\* request passes them.
RouteValidation_noKeyCheck(in) ==
    IF in.model = Nil THEN <<"Model is required">>
    ELSE IF ~in.historyIsArray THEN <<"Conversation history must be an array">>
    ELSE <<>>

RouteValidation(in) ==
    IF in.model = Nil THEN <<"Model is required">>
    ELSE IF ~in.historyIsArray THEN <<"Conversation history must be an array">>
    ELSE IF ServiceName(in.model) \notin in.keys
    THEN <<"API key not configured for", ServiceName(in.model)>>
    ELSE <<>>

\* The status POST /generate gives a refusal: 400 for the request, 500 for
\* the missing key.
RefusalStatus(in) == IF in.model = Nil \/ ~in.historyIsArray THEN 400 ELSE 500

\* POST /generate after the service returned or threw.
GenerateAnswer(result) ==
    IF result.thrown
    THEN ErrorResponse(500, IF Truthy(result.message) THEN result.message
                            ELSE <<"Internal server error">>)
    ELSE IF ~result.success
    THEN Response(500, JsonBody({"error", "content"}, result.content, FALSE,
                                IF result.hasError /\ Truthy(result.error)
                                THEN result.error
                                ELSE <<"Failed to generate response">>))
    ELSE Response(200, JsonBody({"content", "success"}, result.content, TRUE, <<>>))

\* POST /stream writing the completion signal also after the error frame.
StreamAnswer_doneAfterError(result) ==
    ContentFrames(result.chunks)
    \o (IF result.thrown
        THEN <<AsFrame(ErrorFrameWith(IF Truthy(result.message) THEN result.message
                                      ELSE <<"Internal server error">>))>>
        ELSE <<>>)
    \o <<AsFrame(DoneFrame)>>

\* POST /stream after the service returned or threw: a content frame per
\* chunk, then the done frame, or the error frame of the catch block.
StreamAnswer(result) ==
    ContentFrames(result.chunks)
    \o <<AsFrame(IF result.thrown
                 THEN ErrorFrameWith(IF Truthy(result.message) THEN result.message
                                     ELSE <<"Internal server error">>)
                 ELSE DoneFrame)>>

\* generateLLMResponseStream on an OK event stream that arrives whole and is
\* then closed.
StreamClientCalls(frames) ==
    LET decoded == DecodeStream(WireOf(frames))
        lines == SplitLines(decoded.text)
        r == ProcessLines(CompleteLines(lines), <<>>)
    IN  IF r.returned THEN r.calls ELSE Append(r.calls, Call("complete", <<>>))

NoResult == Returned(FALSE, <<>>, FALSE, <<>>)

ServeRequests ==
    { [mode |-> "generate", model |-> m, keys |-> k, historyIsArray |-> h,
       outcome |-> o, pstream |-> NoStream] :
        m \in ModelIds \cup {Nil}, k \in KeySets, h \in BOOLEAN, o \in ProviderOutcomes }
    \cup
    { [mode |-> "stream", model |-> m, keys |-> k, historyIsArray |-> h,
       outcome |-> NoOutcome, pstream |-> p] :
        m \in ModelIds \cup {Nil}, k \in KeySets, h \in BOOLEAN, p \in ProviderStreams }

ServeInit ==
    /\ genIn \in ServeRequests
    /\ genSrv = [result |-> NoResult, stream |-> StreamResult(FALSE, <<>>, <<>>),
                 providerCalls |-> 0]
    /\ genHttp = [http |-> NoHttp, frames |-> <<>>]
    /\ genOut = [result |-> NoResult, calls |-> <<>>]
    /\ genPc = "route"

ServeFrame == UNCHANGED <<uiVars, fmtVars, stVars, orVars, genIn>>

\* The route validates the request: it answers at once, or calls the service.
ServeValidate ==
    /\ genPc = "route"
    /\ LET refusal == RouteValidation(genIn)
       IN  IF refusal = <<>>
           THEN /\ genPc' = "service"
                /\ UNCHANGED genHttp
           ELSE /\ genPc' = "client"
                /\ genHttp' =
                     IF genIn.mode = "generate"
                     THEN [genHttp EXCEPT
                             !.http = ErrorResponse(RefusalStatus(genIn), refusal)]
                     ELSE [genHttp EXCEPT !.frames = <<AsFrame(ErrorFrameWith(refusal))>>]
    /\ UNCHANGED <<genSrv, genOut>>
    /\ ServeFrame

\* The service function runs up to the provider's SDK call, or ends before it.
ServeService ==
    /\ genPc = "service"
    /\ IF ReachesProvider(genIn.mode, genIn.model, genIn.keys)
       THEN /\ genPc' = "provider"
            /\ UNCHANGED genSrv
       ELSE /\ genPc' = "answer"
            /\ genSrv' = [genSrv EXCEPT
                 !.result = generateResponse(genIn.model, genIn.keys, genIn.outcome),
                 !.stream = generateStreamingResponse(genIn.model, genIn.keys, genIn.pstream)]
    /\ UNCHANGED <<genHttp, genOut>>
    /\ ServeFrame

\* The provider is called and the service function deals with what it does.
ServeProvider ==
    /\ genPc = "provider"
    /\ genPc' = "answer"
    /\ genSrv' = [genSrv EXCEPT
         !.providerCalls = @ + 1,
         !.result = generateResponse(genIn.model, genIn.keys, genIn.outcome),
         !.stream = generateStreamingResponse(genIn.model, genIn.keys, genIn.pstream)]
    /\ UNCHANGED <<genHttp, genOut>>
    /\ ServeFrame

\* The route answers with what the service returned or threw.
ServeAnswer ==
    /\ genPc = "answer"
    /\ genPc' = "client"
    /\ genHttp' = IF genIn.mode = "generate"
                  THEN [genHttp EXCEPT !.http = GenerateAnswer(genSrv.result)]
                  ELSE [genHttp EXCEPT !.frames = StreamAnswer(genSrv.stream)]
    /\ UNCHANGED <<genSrv, genOut>>
    /\ ServeFrame

\* The client function turns the answer into its result or its callbacks.
ServeClient ==
    /\ genPc = "client"
    /\ genPc' = "done"
    /\ genOut' = IF genIn.mode = "generate"
                 THEN [genOut EXCEPT !.result = generateLLMResponse(genHttp.http)]
                 ELSE [genOut EXCEPT !.calls = StreamClientCalls(genHttp.frames)]
    /\ UNCHANGED <<genSrv, genHttp>>
    /\ ServeFrame

InitServe == UiIdle /\ FmtIdle /\ ServeInit /\ StIdle /\ OrIdle

NextServe ==
    \/ ServeValidate
    \/ ServeService
    \/ ServeProvider
    \/ ServeAnswer
    \/ ServeClient

SpecServe == InitServe /\ [][NextServe]_vars

(***************************************************************************)
(* The turn orchestrator (specification SpecTurn): requestTurn with its    *)
(* pre-response delay, placeholder message, streaming registry and paced   *)
(* reveal, autostart with its one-shot latch, and start / pause / reset as *)
(* the design describes them.  The page under src/ holds the earlier send  *)
(* handlers modelled above; this orchestrator drives formatMessagesForAPI  *)
(* and the incremental transport, whose contract (fragments, then exactly  *)
(* one of completion or error) stands for one transport call.             *)
(***************************************************************************)
IdleCall ==
    [pc |-> "idle", id |-> 0, by |-> Nil, history |-> <<>>, logsEmpty |-> FALSE,
     lenBefore |-> 0, pending |-> <<>>, content |-> <<>>, end |-> Nil]

NoFlags == [thinking |-> FALSE, generating |-> FALSE, typing |-> FALSE]

\* What one transport call delivers: the text of its fragments, and whether
\* it ends in on-complete or on-error.
ReplyChoices ==
    { [text |-> t, end |-> e] : t \in {<<>>, <<" ">>, <<"a", "b">>},
                                e \in {"complete", "error"} }

\* The topic seed: the single opening entry when there is no history yet.
TopicSeed == [role |-> "user", content |-> <<"Begin discussing", topic>>]

Log(side) == IF side = "llm1" THEN llm1Messages ELSE llm2Messages

SetLog(side, log) ==
    IF side = "llm1"
    THEN llm1Messages' = log /\ UNCHANGED llm2Messages
    ELSE llm2Messages' = log /\ UNCHANGED llm1Messages

HasId(log, id) == \E i \in 1..Len(log) : log[i].id = id

RemoveId(log, id) == SelectSeq(log, LAMBDA m : m.id # id)

AppendChar(log, id, ch) ==
    [i \in 1..Len(log) |->
        IF log[i].id = id THEN [log[i] EXCEPT !.content = @ \o <<ch>>] ELSE log[i]]

TurnInit ==
    /\ topic \in Topics
    /\ startingLlm \in Sides \cup {Nil}
    /\ isRunning = FALSE
    /\ currentTurn = Nil
    /\ turnCount = 0
    /\ llm1Messages = <<>>
    /\ llm2Messages = <<>>
    /\ llm1Config = Nil
    /\ llm2Config = Nil
    /\ isLlm1Typing = FALSE
    /\ isLlm2Typing = FALSE
    /\ now = 2
    /\ lastOp = "init"
    /\ edits = 0
    /\ orFlags = [side \in Sides |-> NoFlags]
    /\ orRegistry = {}
    /\ orCalls = [side \in Sides |-> IdleCall]
    /\ orNotices = <<>>
    /\ orAuto = [latch |-> FALSE, pending |-> FALSE, fired |-> 0]
    /\ orRequests = 0

TurnFrame ==
    /\ UNCHANGED <<topic, startingLlm, llm1Config, llm2Config, isLlm1Typing,
                   isLlm2Typing, lastOp, edits>>
    /\ UNCHANGED <<fmtVars, genVars, stVars>>

\* requestTurn up to its first suspension: start the cycle if none is running,
\* mark the participant thinking and generating, then wait the delay.
BeginTurn(participant, by) ==
    /\ orCalls[participant].pc = "idle"
    /\ orRequests < MaxRequests
    /\ orRequests' = orRequests + 1
    /\ isRunning' = TRUE
    /\ currentTurn' = (IF isRunning THEN currentTurn ELSE participant)
    /\ orFlags' = [orFlags EXCEPT ![participant].thinking = TRUE,
                                  ![participant].generating = TRUE]
    /\ orCalls' = [orCalls EXCEPT ![participant] =
                      [IdleCall EXCEPT !.pc = "delay", !.by = by]]
    /\ UNCHANGED <<turnCount, llm1Messages, llm2Messages, now, orRegistry, orNotices>>
    /\ TurnFrame

requestTurn(participant) ==
    /\ BeginTurn(participant, "user")
    /\ UNCHANGED orAuto

\* After the delay: clear thinking, mark the peer typing, derive the history
\* (the topic seed when it is empty), append the placeholder, register its id
\* and invoke the transport.
afterDelay(participant) ==
    /\ orCalls[participant].pc = "delay"
    /\ LET derived == formatMessagesForAPI(llm1Messages, llm2Messages, participant)
           history == IF derived = <<>> /\ topic # Nil THEN <<TopicSeed>> ELSE derived
           id == now + 1
           placeholder == [id |-> id, content |-> <<>>,
                           timestamp |-> ToLocaleTimeString(now)]
       IN  /\ now' = id
           /\ orFlags' = [orFlags EXCEPT ![participant].thinking = FALSE,
                                         ![Peer(participant)].typing = TRUE]
           /\ SetLog(participant, Append(Log(participant), placeholder))
           /\ orRegistry' = orRegistry \cup {id}
           /\ \E reply \in ReplyChoices :
                 orCalls' = [orCalls EXCEPT ![participant] =
                    [pc |-> "streaming", id |-> id, by |-> @.by, history |-> history,
                     logsEmpty |-> (llm1Messages = <<>> /\ llm2Messages = <<>>),
                     lenBefore |-> Len(Log(participant)),
                     pending |-> reply.text, content |-> <<>>, end |-> reply.end]]
    /\ UNCHANGED <<isRunning, currentTurn, turnCount, orNotices, orAuto,
                   orRequests>>
    /\ TurnFrame

\* One paced character of a fragment joins the placeholder's content.
revealCharacter(participant) ==
    /\ orCalls[participant].pc = "streaming"
    /\ orCalls[participant].pending # <<>>
    /\ LET ch == Head(orCalls[participant].pending)
       IN  /\ orCalls' = [orCalls EXCEPT ![participant].pending = Tail(@),
                                         ![participant].content = @ \o <<ch>>]
           /\ SetLog(participant, AppendChar(Log(participant), orCalls[participant].id, ch))
    /\ UNCHANGED <<isRunning, currentTurn, turnCount, now, orFlags, orRegistry,
                   orNotices, orAuto, orRequests>>
    /\ TurnFrame

\* The cleanup common to completion and error.
Cleanup(participant) ==
    /\ orFlags' = [orFlags EXCEPT ![participant].thinking = FALSE,
                                  ![participant].generating = FALSE,
                                  ![Peer(participant)].typing = FALSE]
    /\ orRegistry' = orRegistry \ {orCalls[participant].id}
    /\ orCalls' = [orCalls EXCEPT ![participant] = IdleCall]

\* On completion with the empty check left out: a blank message stays and the
\* turn advances.
onComplete_keepsBlank(participant) ==
    /\ orCalls[participant].pc = "streaming"
    /\ orCalls[participant].end = "complete"
    /\ orCalls[participant].pending = <<>>
    /\ Cleanup(participant)
    /\ currentTurn' = Peer(participant)
    /\ turnCount' = turnCount + 1
    /\ UNCHANGED <<llm1Messages, llm2Messages, orNotices>>
    /\ UNCHANGED <<isRunning, now, orAuto, orRequests>>
    /\ TurnFrame

\* On stream completion: cleanup; an empty or blank content discards the
\* placeholder and notifies, any other content advances the turn state.
onComplete(participant) ==
    /\ orCalls[participant].pc = "streaming"
    /\ orCalls[participant].end = "complete"
    /\ orCalls[participant].pending = <<>>
    /\ Cleanup(participant)
    /\ IF Trim(orCalls[participant].content) = <<>>
       THEN /\ SetLog(participant, RemoveId(Log(participant), orCalls[participant].id))
            /\ orNotices' = Append(orNotices, <<"received empty response">>)
            /\ UNCHANGED <<currentTurn, turnCount>>
       ELSE /\ currentTurn' = Peer(participant)
            /\ turnCount' = turnCount + 1
            /\ UNCHANGED <<llm1Messages, llm2Messages, orNotices>>
    /\ UNCHANGED <<isRunning, now, orAuto, orRequests>>
    /\ TurnFrame

\* On error without the cleanup: the flags and the registry entry stay.
onError_noCleanup(participant) ==
    /\ orCalls[participant].pc = "streaming"
    /\ orCalls[participant].end = "error"
    /\ orCalls' = [orCalls EXCEPT ![participant] = IdleCall]
    /\ SetLog(participant, RemoveId(Log(participant), orCalls[participant].id))
    /\ orNotices' = Append(orNotices, <<"transport error">>)
    /\ UNCHANGED <<isRunning, currentTurn, turnCount, now, orAuto, orRequests,
                   orFlags, orRegistry>>
    /\ TurnFrame

\* On stream or transport error, at any point of the stream: the same cleanup,
\* the placeholder discarded, the error's text shown.
onError(participant) ==
    /\ orCalls[participant].pc = "streaming"
    /\ orCalls[participant].end = "error"
    /\ Cleanup(participant)
    /\ SetLog(participant, RemoveId(Log(participant), orCalls[participant].id))
    /\ orNotices' = Append(orNotices, <<"transport error">>)
    /\ UNCHANGED <<isRunning, currentTurn, turnCount, now, orAuto, orRequests>>
    /\ TurnFrame

ControlFrame ==
    /\ UNCHANGED <<now, orCalls, orNotices, orAuto, orRequests>>
    /\ TurnFrame

start ==
    /\ isRunning' = TRUE
    /\ currentTurn' = (IF startingLlm # Nil THEN startingLlm ELSE "llm1")
    /\ turnCount' = 1
    /\ UNCHANGED <<llm1Messages, llm2Messages, orFlags, orRegistry>>
    /\ ControlFrame

pause ==
    /\ isRunning' = FALSE
    /\ currentTurn' = Nil
    /\ UNCHANGED <<turnCount, llm1Messages, llm2Messages, orFlags, orRegistry>>
    /\ ControlFrame

\* reset clears the turn state, both logs, the flags and the registry; a call
\* in flight is neither awaited nor cancelled.
reset ==
    /\ isRunning' = FALSE
    /\ currentTurn' = Nil
    /\ turnCount' = 0
    /\ llm1Messages' = <<>>
    /\ llm2Messages' = <<>>
    /\ orFlags' = [side \in Sides |-> NoFlags]
    /\ orRegistry' = {}
    /\ ControlFrame

\* The conditions of autostart: a topic and a starting participant were
\* supplied and no cycle has started.
AutostartConditions ==
    topic # Nil /\ startingLlm # Nil /\ ~isRunning /\ turnCount = 0

\* autostart without its latch: it arms whenever its conditions are observed.
autostart_noLatch ==
    /\ AutostartConditions
    /\ ~orAuto.pending
    /\ orAuto' = [orAuto EXCEPT !.pending = TRUE]
    /\ UNCHANGED <<isRunning, currentTurn, turnCount, llm1Messages, llm2Messages, now,
                   orFlags, orRegistry, orCalls, orNotices, orRequests>>
    /\ TurnFrame

\* autostart observes its conditions: the latch is set once and for all and
\* the settle delay begins.
autostart ==
    /\ AutostartConditions
    /\ ~orAuto.latch
    /\ orAuto' = [orAuto EXCEPT !.latch = TRUE, !.pending = TRUE]
    /\ UNCHANGED <<isRunning, currentTurn, turnCount, llm1Messages, llm2Messages, now,
                   orFlags, orRegistry, orCalls, orNotices, orRequests>>
    /\ TurnFrame

\* The settle delay is over: autostart invokes requestTurn(firstParticipant).
autostartFires ==
    /\ orAuto.pending
    /\ BeginTurn(startingLlm, "autostart")
    /\ orAuto' = [orAuto EXCEPT !.pending = FALSE, !.fired = @ + 1]

\* The continuation of a call in flight.
Continue(participant) ==
    \/ afterDelay(participant)
    \/ revealCharacter(participant)
    \/ onComplete(participant)
    \/ onError(participant)

InitTurn == TurnInit /\ FmtIdle /\ GenIdle /\ StIdle

NextTurn ==
    \/ \E participant \in Sides : requestTurn(participant)
    \/ \E participant \in Sides : afterDelay(participant)
    \/ \E participant \in Sides : revealCharacter(participant)
    \/ \E participant \in Sides : onComplete(participant)
    \/ \E participant \in Sides : onError(participant)
    \/ start
    \/ pause
    \/ reset
    \/ autostart
    \/ autostartFires

SpecTurn == InitTurn /\ [][NextTurn]_vars

\* Every suspension of a call ends: the delay elapses, the paced reveal goes
\* on, the transport settles in completion or error.
SpecTurnLive == SpecTurn /\ \A participant \in Sides : WF_vars(Continue(participant))

(***************************************************************************)
(* Claims about the conversation page (specification Spec).                *)
(***************************************************************************)
SendOps == {"send1", "send2"}

\* A step of one of the two send handlers: it names itself in lastOp and
\* appends to a log.
IsSendStep ==
    /\ lastOp' \in SendOps
    /\ (llm1Messages' # llm1Messages \/ llm2Messages' # llm2Messages)

Sender(op) == IF op = "send1" THEN "llm1" ELSE "llm2"

C10_SendStartsCycle == lastOp \in SendOps => isRunning = TRUE

\* A step of the handler that names itself op in lastOp: the clock and the
\* configuration setters leave lastOp alone but move now or edits.
IsStepOf(op) == lastOp' = op /\ now' = now /\ edits' = edits

\* C11: a start sets running, sets the current turn to the supplied starting
\* participant (llm1 when none was supplied) and the turn counter to 1; it
\* appends to neither log, raises no activity flag and starts no generation.
C11_StartFrame ==
    [][ IsStepOf("start") =>
          /\ isRunning' = TRUE
          /\ currentTurn' = (IF startingLlm # Nil THEN startingLlm ELSE "llm1")
          /\ turnCount' = 1
          /\ UNCHANGED <<llm1Messages, llm2Messages, isLlm1Typing, isLlm2Typing>>
          /\ UNCHANGED <<genVars, stVars, orVars>> ]_vars

\* C11 witness: a start with no starting participant supplied, after two
\* sends had moved the counter and the logs.
C11_Witness ==
    /\ lastOp = "start"
    /\ startingLlm = Nil
    /\ isRunning
    /\ currentTurn = "llm1"
    /\ turnCount = 1
    /\ Len(llm1Messages) = 2
    /\ Len(llm2Messages) = 2

\* C12: a pause clears running and the current turn and leaves the turn
\* counter, both logs and both configurations as they were.
C12_PauseFrame ==
    [][ IsStepOf("pause") =>
          /\ isRunning' = FALSE
          /\ currentTurn' = Nil
          /\ UNCHANGED <<turnCount, llm1Messages, llm2Messages, llm1Config, llm2Config>> ]_vars

\* C12 witness: a pause of a started cycle in which a message was sent and a
\* configuration edited.
C12_Witness ==
    /\ lastOp = "pause"
    /\ ~isRunning
    /\ currentTurn = Nil
    /\ turnCount = 2
    /\ Len(llm1Messages) = 2
    /\ edits = 1

StrictlyIncreasingIds(log) ==
    \A i \in 1..Len(log) : \A j \in (i + 1)..Len(log) : log[i].id < log[j].id

\* C20 (as stated): no identifier occurs in both logs, and within a log the
\* identifiers strictly increase in creation order.
C20_UniqueIncreasingIds ==
    /\ \A i \in 1..Len(llm1Messages) : \A j \in 1..Len(llm2Messages) :
          llm1Messages[i].id # llm2Messages[j].id
    /\ StrictlyIncreasingIds(llm1Messages)
    /\ StrictlyIncreasingIds(llm2Messages)

\* C20, the sends alone: even apart from the two greetings, which share the
\* identifier "1", messages appended by sends carry distinct identifiers.
C20_SentIdsDistinct ==
    /\ \A i \in 2..Len(llm1Messages) : \A j \in 2..Len(llm2Messages) :
          llm1Messages[i].id # llm2Messages[j].id
    /\ StrictlyIncreasingIds(llm1Messages)
    /\ StrictlyIncreasingIds(llm2Messages)

\* C21: the turn counter never decreases on a start, pause or send; reset is
\* the only operation that may lower it.
C21_CounterNonDecreasing ==
    [][(IsStepOf("start") \/ IsStepOf("pause") \/ IsSendStep) => turnCount' >= turnCount]_vars

\* C21, without start: a pause or a send never lowers the counter.
C21_PauseAndSendKeepCount ==
    [][(IsStepOf("pause") \/ IsSendStep) => turnCount' >= turnCount]_vars

\* What the page hands to the panel of a side, and what the panel takes for
\* the props the page does not pass.
PanelProps(side) ==
    [isTyping |-> IF side = "llm1" THEN isLlm1Typing ELSE isLlm2Typing,
     isGenerating |-> FALSE,
     isRunning |-> FALSE,
     currentTurn |-> Nil]

\* disabled={isGenerating || isTyping || (isRunning && currentTurn !== side)}
SendDisabled(side, props) ==
    props.isGenerating \/ props.isTyping \/ (props.isRunning /\ props.currentTurn # side)

\* C26: while a cycle is running the send control of the side that is not the
\* current turn is disabled, and a side's send control is disabled whenever
\* its panel is in the typing state.
C26_SendControlDisabled ==
    \A side \in Sides :
        /\ (isRunning /\ currentTurn # side) => SendDisabled(side, PanelProps(side))
        /\ PanelProps(side).isTyping => SendDisabled(side, PanelProps(side))

\* C26, the handler: a send of the side that is not the current turn is
\* accepted while the cycle is running.
C26_HandlerAcceptsEitherSide ==
    (Mounted /\ isRunning /\ turnCount < MaxTurns) =>
        /\ Len(llm1Messages) <= MaxSends => ENABLED handleLlm1SendMessage
        /\ Len(llm2Messages) <= MaxSends => ENABLED handleLlm2SendMessage

\* C26, the send of the side whose turn it is not has been accepted twice
\* in a row.
C26_OutOfTurnSeen ==
    /\ isRunning
    /\ lastOp = "send1"
    /\ currentTurn = "llm2"
    /\ Len(llm1Messages) = 3
    /\ Len(llm2Messages) = 1

\* The props of a panel that is handed the turn state and its side's flags.
PanelPropsWithTurn(side) ==
    [isTyping |-> orFlags[side].typing,
     isGenerating |-> orFlags[side].generating,
     isRunning |-> isRunning,
     currentTurn |-> currentTurn]

\* C26, for a panel that is handed the turn state (specification SpecTurn):
\* the control is disabled out of turn and while generating or typing.
C26_DisabledWhenPropsPassed ==
    \A side \in Sides :
        /\ (isRunning /\ currentTurn # side) => SendDisabled(side, PanelPropsWithTurn(side))
        /\ (orFlags[side].generating \/ orFlags[side].typing)
              => SendDisabled(side, PanelPropsWithTurn(side))

\* C28: reset discards the user's changes of both configurations: after it
\* each configuration has its value of the conversation's start, the defaults
\* with the system prompt derived from the topic.
C28_ResetRestoresConfig ==
    [][IsStepOf("reset") =>
          /\ llm1Config' = DefaultConfig(1)
          /\ llm2Config' = DefaultConfig(2)]_vars

\* C28, what reset does: both configurations are left as they are.
C28_ResetKeepsConfig ==
    [][IsStepOf("reset") => UNCHANGED <<llm1Config, llm2Config>>]_vars

ConfigFields == {"model", "temperature", "maxTokens", "systemPrompt"}

\* Between the two configurations at most the given field differs.
DiffersOnlyIn(before, after, field) ==
    \A f \in ConfigFields \ {field} : after[f] = before[f]

OneAppended(before, after) ==
    /\ Len(after) = Len(before) + 1
    /\ SubSeq(after, 1, Len(before)) = before

\* The log before is an initial part of the log after.
IsPrefixOf(before, after) ==
    /\ Len(before) <= Len(after)
    /\ SubSeq(after, 1, Len(before)) = before

\* C31: every send appends exactly one message at the end of the sender's
\* log, leaves the earlier entries of that log and the whole of the peer's
\* log unchanged; except by reset a log never shrinks or loses an entry.
C31_SendAppendsOne ==
    [][ /\ IsStepOf("send1") =>
              OneAppended(llm1Messages, llm1Messages') /\ llm2Messages' = llm2Messages
        /\ IsStepOf("send2") =>
              OneAppended(llm2Messages, llm2Messages') /\ llm1Messages' = llm1Messages
        /\ ~IsStepOf("reset") =>
              /\ IsPrefixOf(llm1Messages, llm1Messages')
              /\ IsPrefixOf(llm2Messages, llm2Messages') ]_vars

\* C31 witness: both participants have sent onto logs that already held a
\* sent message, the second participant last, while the cycle is not running.
C31_Witness ==
    /\ lastOp = "send2"
    /\ Len(llm1Messages) = 3
    /\ Len(llm2Messages) = 3
    /\ llm2Messages[2].id < llm2Messages[3].id
    /\ ~isRunning

\* C32: whenever the cycle is running the current turn is a participant,
\* whatever start, pause, reset and send operations came before.
C32_RunningHasTurn == isRunning = TRUE => currentTurn \in Sides

\* C32 witness: a cycle started after the second participant had sent, and a
\* send of the first participant in it.
C32_Witness ==
    /\ isRunning = TRUE
    /\ lastOp = "send1"
    /\ currentTurn = "llm2"
    /\ turnCount = 2
    /\ Len(llm2Messages) = 2

\* A log without the displayed time of its entries.
WithoutTimestamps(log) ==
    [i \in 1..Len(log) |-> [id |-> log[i].id, content |-> log[i].content]]

\* The turn state and the logs are those of the conversation's start.
AtConversationStart(running, turn, count, log1, log2) ==
    /\ running = FALSE
    /\ turn = Nil
    /\ count = 0
    /\ Len(log1) = 1
    /\ Len(log2) = 1
    /\ WithoutTimestamps(log1) = WithoutTimestamps(GreetingLog(1, "llm1", PageLoad))
    /\ WithoutTimestamps(log2) = WithoutTimestamps(GreetingLog(2, "llm2", PageLoad))

\* A reset now would change nothing of the page.
ResetChangesNothing == ~ENABLED (handleReset /\ uiVars' # uiVars)

C35_GreetingShowsResetTime ==
    [][IsStepOf("reset") =>
          /\ llm1Messages'[1].timestamp = ToLocaleTimeString(now)
          /\ llm2Messages'[1].timestamp = ToLocaleTimeString(now)]_vars

(***************************************************************************)
(* Claims about formatMessagesForAPI (specification SpecFormat).           *)
(***************************************************************************)
FmtPeerLog == IF fmtSide = "llm1" THEN fmtLlm2 ELSE fmtLlm1
FmtOwnLog == IF fmtSide = "llm1" THEN fmtLlm1 ELSE fmtLlm2

NonBlank(content) == \E i \in 1..Len(content) : content[i] # " "

\* The positions of a log that contribute: not the first entry, and among
\* the last maxHistory of the remaining ones.
Window(log) == { i \in 2..Len(log) : i > Len(log) - maxHistory }

\* C8 (as stated): a non-empty result ends with a "user" entry whose content is
\* the peer's latest non-blank message; its last entry is never "assistant".
C8_EndsWithPeerLatest ==
    (fmtPc = "return" /\ fmtResult # <<>>) =>
        LET last == fmtResult[Len(fmtResult)]
        IN  /\ last.role = "user"
            /\ \E i \in 1..Len(FmtPeerLog) :
                  /\ NonBlank(FmtPeerLog[i].content)
                  /\ \A j \in (i + 1)..Len(FmtPeerLog) : ~NonBlank(FmtPeerLog[j].content)
                  /\ last.content = FmtPeerLog[i].content

\* C9: no entry of the result has empty or blank content, a non-empty result
\* holds a "user" entry, and the result is empty exactly when no contributing
\* entry of the peer's log (the only source of "user" entries) is non-blank.
C9_NoBlankAndUserPresent ==
    fmtPc = "return" =>
        /\ \A i \in 1..Len(fmtResult) : NonBlank(fmtResult[i].content)
        /\ (fmtResult # <<>> => \E i \in 1..Len(fmtResult) : fmtResult[i].role = "user")
        /\ (fmtResult = <<>> <=>
               ~ \E i \in Window(FmtPeerLog) : NonBlank(FmtPeerLog[i].content))

\* C9 witness: the responder's own non-blank entries and a blank peer entry are
\* all dropped, leaving the empty result.
C9_Witness ==
    /\ fmtPc = "return"
    /\ fmtResult = <<>>
    /\ Len(FmtOwnLog) = 3
    /\ NonBlank(FmtOwnLog[2].content)
    /\ NonBlank(FmtOwnLog[3].content)
    /\ Len(FmtPeerLog) = 3
    /\ NonBlank(FmtPeerLog[1].content)

\* The entries of a log that contribute: the first one dropped, the most
\* recent maxHistory of the rest.
Recent(log) == SliceLast(SliceFrom1(log), maxHistory)

\* The place of an entry in the merge by paired index: peer[i] at 2i - 1,
\* self[i] at 2i.
MergeRanks == 1..(2 * Max(Len(Recent(FmtPeerLog)), Len(Recent(FmtOwnLog))))

\* The entry of the result is the entry of that rank, with the role of its log.
IsEntryOfRank(entry, rank) ==
    IF rank % 2 = 1
    THEN LET i == (rank + 1) \div 2
         IN  /\ i <= Len(Recent(FmtPeerLog))
             /\ entry = [role |-> "user", content |-> Recent(FmtPeerLog)[i].content]
    ELSE LET i == rank \div 2
         IN  /\ i <= Len(Recent(FmtOwnLog))
             /\ entry = [role |-> "assistant", content |-> Recent(FmtOwnLog)[i].content]

\* The entries of history from position k on are entries of the two logs, in
\* the order of the merge, none of a rank below the given one.
RECURSIVE InMergeOrder(_, _, _)
InMergeOrder(history, k, rank) ==
    IF k > Len(history) THEN TRUE
    ELSE \E r \in { x \in MergeRanks : x >= rank } :
            /\ IsEntryOfRank(history[k], r)
            /\ InMergeOrder(history, k + 1, r)

\* C23: every entry of the result is an entry of the peer's log tagged "user"
\* or an entry of the responder's own log tagged "assistant", and the entries
\* follow the merge by paired index: peer[i] before self[i], index i before
\* index j > i.
C23_MergedByPairedIndex ==
    fmtPc = "return" => InMergeOrder(fmtResult, 1, 1)

\* C23 witness: entries of both logs and of two indices were merged.
C23_Witness ==
    /\ fmtPc = "return"
    /\ Len(fmtResult) >= 4
    /\ fmtResult[1] = [role |-> "user", content |-> <<"a">>]
    /\ fmtResult[2] = [role |-> "assistant", content |-> <<" ", "b">>]
    /\ fmtResult[3] = [role |-> "user", content |-> <<" ", "b">>]
    /\ Recent(FmtOwnLog)[1].content = <<" ", "b">>
    /\ Recent(FmtPeerLog)[2].content = <<" ", "b">>

\* C23, each contributing entry once: the result has no more entries than the
\* two logs contribute.
C23_NoEntryTwice ==
    fmtPc = "return" => Len(fmtResult) <= Len(Recent(FmtPeerLog)) + Len(Recent(FmtOwnLog))

\* The contents of the entries of a log that contribute.
WindowContents(log) == { log[i].content : i \in Window(log) }

\* C24: every entry of the result is one of the maxHistory most recent entries
\* of its log (the first entry apart): no older entry appears, however long
\* the logs are.
C24_OnlyWindowContributes ==
    fmtPc = "return" =>
        \A k \in 1..Len(fmtResult) :
            /\ fmtResult[k].content # OlderContent
            /\ fmtResult[k].content \in
                  WindowContents(IF fmtResult[k].role = "user" THEN FmtPeerLog ELSE FmtOwnLog)

\* C24 witness: both logs are longer than the window, and the result holds
\* entries of both.
C24_Witness ==
    /\ fmtPc = "return"
    /\ Len(fmtLlm1) = 1 + MaxOlder + maxHistory
    /\ Len(fmtLlm2) = 2 + maxHistory
    /\ \E k \in 1..Len(fmtResult) : fmtResult[k].role = "assistant"
    /\ fmtResult[Len(fmtResult)] = [role |-> "user", content |-> <<"z">>]
    /\ Len(fmtResult) > 20

\* The content is one of the greetings getInitialMessage builds.
IsGreeting(content) ==
    content # <<>> /\ content[1] \in {"I'd like to discuss", "Hello! I'm LLM"}

\* The first entry of the log is conversational content, not a greeting.
FirstIsContent(log) ==
    log # <<>> /\ NonBlank(log[1].content) /\ ~IsGreeting(log[1].content)

\* C25: the first entry of a log is left out only when it is a greeting: when
\* the first entry of the peer's log is conversational content, the result
\* holds it as a "user" entry.
C25_FirstContentIncluded ==
    (fmtPc = "return" /\ FirstIsContent(FmtPeerLog)) =>
        \E k \in 1..Len(fmtResult) :
            fmtResult[k] = [role |-> "user", content |-> FmtPeerLog[1].content]

\* The log with a greeting in place of its first entry.
WithGreetingFirst(log) ==
    IF log = <<>> THEN log
    ELSE [log EXCEPT ![1] = [id |-> 1, content |-> <<"Hello! I'm LLM", "1", Nil>>]]

\* C25, what the function does: the first entry of either log is never read;
\* the result is the one for the logs with a greeting in its place.
C25_FirstEntryNeverRead ==
    fmtPc = "return" =>
        fmtResult = formatMessagesForAPI(WithGreetingFirst(fmtLlm1),
                                         WithGreetingFirst(fmtLlm2), fmtSide)

\* How many "user" entries of the result carry the content.
UserEntriesWith(content) ==
    Cardinality({ k \in 1..Len(fmtResult) :
                    fmtResult[k].role = "user" /\ fmtResult[k].content = content })

\* How many contributing entries of the peer's log carry the content.
PeerEntriesWith(content) ==
    Cardinality({ i \in 1..Len(Recent(FmtPeerLog)) : Recent(FmtPeerLog)[i].content = content })

\* The last contributing entry of the peer's log has non-blank content.
PeerLatestHasText ==
    /\ Recent(FmtPeerLog) # <<>>
    /\ NonBlank(Recent(FmtPeerLog)[Len(Recent(FmtPeerLog))].content)

PeerLatest == Recent(FmtPeerLog)[Len(Recent(FmtPeerLog))].content

\* C33: no message of the peer's log is emitted more than once: the result
\* has no more "user" entries of a content than the peer's window has entries
\* of that content, so the peer's latest message is never there twice.
C33_PeerEntryAtMostOnce ==
    fmtPc = "return" =>
        \A content \in ContentChoices : UserEntriesWith(content) <= PeerEntriesWith(content)

\* C33, what the function does: when the peer's latest contributing entry has
\* text, the result ends with that entry twice, both times as "user", and this
\* is the only entry emitted more often than the window holds it.
C33_PeerLatestEmittedTwice ==
    fmtPc = "return" =>
        /\ PeerLatestHasText =>
              /\ Len(fmtResult) >= 2
              /\ fmtResult[Len(fmtResult)] = [role |-> "user", content |-> PeerLatest]
              /\ fmtResult[Len(fmtResult) - 1] = [role |-> "user", content |-> PeerLatest]
              /\ UserEntriesWith(PeerLatest) = PeerEntriesWith(PeerLatest) + 1
        /\ \A content \in ContentChoices :
              (PeerLatestHasText => content # PeerLatest)
                 => UserEntriesWith(content) <= PeerEntriesWith(content)

\* C34: formatMessagesForAPI is symmetric in the two participants: the result
\* of formatting (llm1Messages = X, llm2Messages = Y) as one side is the
\* result of formatting (llm1Messages = Y, llm2Messages = X) as the other
\* side, and the call leaves the two logs it was given as they were.
C34_SymmetricInParticipants ==
    /\ [](fmtPc = "return" =>
            fmtResult = formatMessagesForAPI(fmtLlm2, fmtLlm1, Peer(fmtSide)))
    /\ [][fmtPc' = "return" => UNCHANGED <<fmtLlm1, fmtLlm2>>]_vars

\* C34 witness: two different logs formatted as llm2, with entries of both
\* roles in the result and the own entry behind the peer's latest dropped.
C34_Witness ==
    /\ fmtPc = "return"
    /\ fmtSide = "llm2"
    /\ fmtLlm1 # fmtLlm2
    /\ Len(fmtLlm1) = 3
    /\ Len(fmtLlm2) = 3
    /\ Len(fmtResult) = 4
    /\ fmtResult[2].role = "assistant"
    /\ NonBlank(fmtLlm2[3].content)

(***************************************************************************)
(* Claims about the blocking generation (specification SpecGen).           *)
(***************************************************************************)
\* The try block of generateResponse ended in an exception.
ServiceFailed == GenerateTry(genIn.model, genIn.keys, genIn.outcome).thrown

\* The exchange failed as the client sees it: the request was rejected, the
\* status is not OK, or the body of an OK answer does not parse.
ExchangeFailed ==
    \/ genHttp.net = "reject"
    \/ ~IsOk(genHttp.status)
    \/ genHttp.body.kind = "unparseable"

IsFailureResult(r) == ~r.thrown /\ r.success = FALSE /\ r.hasError /\ Truthy(r.error)

\* C7: neither generateResponse nor generateLLMResponse lets an exception
\* out; a failure of the provider call, of the network, a non-OK status or an
\* unparseable body comes back as a result with success false and an error text.
C7_NeverThrows ==
    /\ genPc \in {"route", "network", "client", "done"} =>
          /\ ~genSrv.thrown
          /\ ServiceFailed => IsFailureResult(genSrv)
    /\ genPc = "done" =>
          /\ ~genOut.thrown
          /\ ExchangeFailed => IsFailureResult(genOut)

\* C7 witness: the provider call threw, the route answered 500 with the
\* service's error, and the client returned it as a failure result.
C7_Witness ==
    /\ genPc = "done"
    /\ genIn.outcome.throws
    /\ ServiceFailed
    /\ IsFailureResult(genSrv)
    /\ genHttp.net = "response"
    /\ genHttp.status = 500
    /\ genHttp.body.error = genSrv.error
    /\ IsFailureResult(genOut)

(***************************************************************************)
(* Claims about generateLLMResponseStream (specification SpecStream).      *)
(***************************************************************************)
IsTerminal(call) == call.cb \in {"complete", "error"}

Terminals(calls) == { i \in 1..Len(calls) : IsTerminal(calls[i]) }

\* The texts handed to onChunk, joined in order.
RECURSIVE ChunkText(_)
ChunkText(calls) ==
    IF calls = <<>> THEN <<>>
    ELSE (IF Head(calls).cb = "chunk" THEN Head(calls).text ELSE <<>>)
         \o ChunkText(Tail(calls))

\* C4: whatever the backend does, a call that has ended has invoked exactly one
\* of onComplete / onError, exactly once, as its last callback (no onChunk
\* after it); a call that has not ended has invoked neither.
C4_OneTerminalCallback ==
    /\ stPc = "done" =>
          /\ Cardinality(Terminals(stCalls)) = 1
          /\ IsTerminal(stCalls[Len(stCalls)])
    /\ stPc # "done" => Terminals(stCalls) = {}

\* C4 witness: an event stream carried an error frame with a content frame
\* behind it, both arrived, and the call ended with that one onError and no
\* onChunk.
C4_Witness ==
    /\ stPc = "done"
    /\ stBackend.kind = "stream"
    /\ Len(stBackend.frames) = 2
    /\ stBackend.frames[1] = [kind |-> "frame", obj |-> ErrorFrame]
    /\ stBackend.frames[2] = [kind |-> "frame", obj |-> ContentFrame(<<"a">>)]
    /\ stPos = Len(stBackend.wire)
    /\ stCalls = <<Call("error", <<"E">>)>>

\* The result of the blocking call the 404 fallback makes.
FallbackResult == generateLLMResponse(stBackend.fallback)

FallbackSucceeds ==
    /\ stBackend.kind = "404"
    /\ ~IsNullResult(FallbackResult)
    /\ FallbackResult.success
    /\ Truthy(FallbackResult.content)

\* C5: on a 404 whose blocking call succeeds with non-empty content c, the
\* callbacks are onChunk(c[1]), ..., onChunk(c[n]) in this order, then one
\* onComplete, and never onError.
C5_FallbackPerCharacter ==
    FallbackSucceeds =>
        LET c == FallbackResult.content
        IN  /\ Len(stCalls) <= Len(c) + 1
            /\ \A i \in 1..Len(stCalls) :
                  stCalls[i] = IF i <= Len(c) THEN Call("chunk", <<c[i]>>)
                               ELSE Call("complete", <<>>)
            /\ stPc = "done" => Len(stCalls) = Len(c) + 1 /\ ChunkText(stCalls) = c

\* C5 witness: the fallback has replayed a three-character content and completed.
C5_Witness ==
    /\ FallbackSucceeds
    /\ stPc = "done"
    /\ Len(FallbackResult.content) = 3
    /\ Len(stCalls) = 4
    /\ stCalls[4].cb = "complete"

\* An event stream as POST /stream writes it: content frames, then at most a
\* closing done frame, and the channel closed behind the last frame.
WellFormed ==
    /\ stBackend.kind = "stream"
    /\ stBackend.end = "close"
    /\ \A i \in 1..Len(stBackend.frames) :
          /\ stBackend.frames[i].kind = "frame"
          /\ stBackend.frames[i].obj # ErrorFrame
          /\ stBackend.frames[i].obj = DoneFrame => i = Len(stBackend.frames)

RECURSIVE FrameContents(_)
FrameContents(frames) ==
    IF frames = <<>> THEN <<>>
    ELSE Head(frames).obj.content \o FrameContents(Tail(frames))

IsPrefix(a, b) == Len(a) <= Len(b) /\ SubSeq(b, 1, Len(a)) = a

\* C6: for a well-formed event stream and every split of its bytes into
\* reads, the text handed to onChunk so far is a prefix of the frames'
\* contents joined in order, and all of it when the call has ended.
C6_ChunksEqualFrameContents ==
    WellFormed =>
        /\ IsPrefix(ChunkText(stCalls), FrameContents(stBackend.frames))
        /\ stPc = "done" => ChunkText(stCalls) = FrameContents(stBackend.frames)

\* C6 witness: two content frames and no done frame, read in pieces that cut
\* a character in two and leave part of a line in the buffer; the channel
\* then closed and all the content had been handed on.
C6_Witness ==
    /\ WellFormed
    /\ stPc = "done"
    /\ Len(stBackend.frames) = 2
    /\ stBackend.frames[2].obj # DoneFrame
    /\ FrameContents(stBackend.frames) = <<"é", LF, "a">>
    /\ ChunkText(stCalls) = <<"é", LF, "a">>
    /\ stCalls[Len(stCalls)] = Call("complete", <<>>)

\* C6 witness on the way: a read has ended inside a character and inside a line.
C6_SplitSeen == WellFormed /\ stPc = "read" /\ stDecoder # <<>> /\ stBuffer # <<>>

\* The number of leading frames whose data line has arrived in full (up to
\* and including its first line feed).
RECURSIVE ArrivedFrom(_, _)
ArrivedFrom(frames, pos) ==
    IF frames = <<>> THEN 0
    ELSE LET size == Len(Utf8(FrameText(Head(frames))))
         IN  IF pos >= size - 1
             THEN 1 + ArrivedFrom(Tail(frames), IF pos >= size THEN pos - size ELSE 0)
             ELSE 0

\* What the frames call for, frame by frame: nothing for a frame that does not
\* parse, onChunk for a content, and a stop at onError for an error field or
\* at onComplete for done.
RECURSIVE CallsFor(_)
CallsFor(frames) ==
    IF frames = <<>> THEN <<>>
    ELSE LET f == Head(frames)
         IN  IF f.kind = "malformed" THEN CallsFor(Tail(frames))
             ELSE IF "error" \in f.obj.has THEN <<Call("error", f.obj.error)>>
             ELSE (IF Truthy(f.obj.content) THEN <<Call("chunk", f.obj.content)>> ELSE <<>>)
                  \o (IF f.obj.done THEN <<Call("complete", <<>>)>> ELSE CallsFor(Tail(frames)))

EndsInTerminal(calls) == calls # <<>> /\ IsTerminal(calls[Len(calls)])

\* C16: in the read loop a data frame that does not parse invokes no callback
\* and does not end the call, and the frames behind it are processed: the
\* callbacks are exactly those the parseable frames received so far call for,
\* and the call ends only at a frame with an error field, at a done frame, or
\* when the channel closes or breaks.
C16_UnparseableFrameSkipped ==
    stBackend.kind = "stream" /\ stPc \in {"read", "done"} =>
        LET arrived == SubSeq(stBackend.frames, 1, ArrivedFrom(stBackend.frames, stPos))
            expected == CallsFor(arrived)
        IN  IF EndsInTerminal(expected)
            THEN stPc = "done" /\ stCalls = expected
            ELSE \/ stPc = "read" /\ stCalls = expected
                 \/ /\ stPc = "done"
                    /\ stBackend.end = "close"
                    /\ stPos = Len(stBackend.wire)
                    /\ stCalls = Append(expected, Call("complete", <<>>))
                 \/ /\ stPc = "done"
                    /\ stBackend.end = "abort"
                    /\ stCalls = Append(expected, Call("error", <<"network error">>))

\* C16 witness: a frame that does not parse, then a content frame; the content
\* was handed on and the call ended only when the channel closed.
C16_Witness ==
    /\ stPc = "done"
    /\ stBackend.kind = "stream"
    /\ Len(stBackend.frames) = 2
    /\ stBackend.frames[1].kind = "malformed"
    /\ stBackend.frames[2] = [kind |-> "frame", obj |-> ContentFrame(<<"a">>)]
    /\ stCalls = <<Call("chunk", <<"a">>), Call("complete", <<>>)>>

\* C16 witness on the way: the unparseable frame has arrived in full, no
\* callback was invoked and the call goes on reading.
C16_SkippedSeen ==
    /\ stPc = "read"
    /\ stBackend.kind = "stream"
    /\ Len(stBackend.frames) = 2
    /\ stBackend.frames[1].kind = "malformed"
    /\ stPos = Len(Utf8(FrameText(stBackend.frames[1])))
    /\ stCalls = <<>>

\* What a caller can observe of a finished call, latency apart: the terminal
\* callback and the fragments joined in order.
Observation(calls) ==
    [terminal |-> IF calls = <<>> THEN Nil ELSE calls[Len(calls)].cb,
     text |-> ChunkText(calls)]

\* The answer of POST /generate to a generation that succeeded.
IsGenerated(http) ==
    /\ http.net = "response"
    /\ http.status = 200
    /\ http.body.kind = "json"
    /\ http.body.has = {"content", "success"}
    /\ http.body.success

\* The answer of POST /generate to a generation that failed.
IsFailed(http) ==
    /\ http.net = "response"
    /\ http.status = 500
    /\ http.body.kind = "json"
    /\ http.body.has = {"error"}
    /\ Truthy(http.body.error)

\* The same backend outcome delivered by POST /stream: the content as a
\* fragment (none when it is empty) and the done event, or the error event.
IncrementalDelivery(http) ==
    StreamClientCalls(StreamAnswer(
        IF IsGenerated(http)
        THEN StreamResult(FALSE, <<>>,
                          IF Truthy(http.body.content) THEN <<http.body.content>> ELSE <<>>)
        ELSE StreamResult(TRUE, http.body.error, <<>>)))

FallbackEnded ==
    /\ stBackend.kind = "404"
    /\ stPc = "done"
    /\ (IsGenerated(stBackend.fallback) \/ IsFailed(stBackend.fallback))

\* C22: a call served through the 404 fallback ends with the same terminal
\* callback and the same joined fragments as the incremental delivery of the
\* same backend outcome, also when the generated content is empty.
C22_FallbackIndistinguishable ==
    FallbackEnded => Observation(stCalls) = Observation(IncrementalDelivery(stBackend.fallback))

\* C22, for generations with content and for failed generations: there the
\* fallback and the incremental delivery are observed alike.
C22_AlikeUnlessEmpty ==
    (FallbackEnded /\ ~(IsGenerated(stBackend.fallback) /\ stBackend.fallback.body.content = <<>>))
    => Observation(stCalls) = Observation(IncrementalDelivery(stBackend.fallback))

\* The fallback has replayed a content of several characters.
C22_ReplaySeen ==
    /\ FallbackEnded
    /\ IsGenerated(stBackend.fallback)
    /\ Len(stCalls) = 4
    /\ Observation(stCalls) = [terminal |-> "complete", text |-> <<"a", LF, "b">>]

(***************************************************************************)
(* Claims about the provider message lists (specification SpecRoles).      *)
(***************************************************************************)
AllBuilt == genPc = "built"

\* The history with every role written in its first spelling.
FirstSpelling(history) ==
    [i \in 1..Len(history) |->
        [history[i] EXCEPT !.role = IF @ = "human" THEN "user"
                                    ELSE IF @ = "ai" THEN "assistant" ELSE @]]

RolesOf(messages) == [i \in 1..Len(messages) |-> messages[i].role]

\* The entries of the history whose role is one of the five spellings.
Recognised(history) ==
    SelectSeq(history, LAMBDA msg : msg.role \in {"user", "human", "assistant", "ai", "system"})

\* The part of a built list that stems from the history: the list without
\* the system prompt at its head and without anything behind the entries.
HistoryPart(messages) ==
    LET head == IF Truthy(genIn.systemPrompt) THEN 1 ELSE 0
    IN  SubSeq(messages, head + 1, head + Len(Recognised(genIn.history)))

\* Every path builds the same list whichever spelling the roles have.
SpellingsEquivalent ==
    \A p \in Paths :
        genOut[p] = MessagesOf(p, genIn.systemPrompt, FirstSpelling(genIn.history))

\* Every path keeps the recognised entries in the order of the history.
OrderPreserved ==
    \A p \in Paths : HistoryPart(genOut[p]) = FirstSpelling(Recognised(genIn.history))

PathsAgree ==
    /\ RolesOf(genOut["groq"]) = RolesOf(genOut["deepseek"])
    /\ RolesOf(genOut["deepseek"]) = RolesOf(genOut["openai"])

HasUserEntry == \E i \in 1..Len(genIn.history) : genIn.history[i].role \in {"user", "human"}

\* C29: role human is treated as user and ai as assistant, the order of the
\* history entries is preserved, and the Groq, DeepSeek and OpenAI paths
\* build the same role sequence from the same history.
C29_SameRolesOnEveryPath ==
    AllBuilt => SpellingsEquivalent /\ OrderPreserved /\ PathsAgree

\* C29, the part that holds: the spellings are equivalent and the order is
\* preserved on every path, Groq and DeepSeek always agree, and all three
\* agree on a history that has a user entry.
C29_SameRolesGivenUserEntry ==
    AllBuilt =>
        /\ SpellingsEquivalent
        /\ OrderPreserved
        /\ genOut["groq"] = genOut["deepseek"]
        /\ (HasUserEntry => PathsAgree)

\* C29: a history of both spellings in which all three paths agree.
C29_BothSpellingsSeen ==
    /\ AllBuilt
    /\ PathsAgree
    /\ \E i, j \in 1..Len(genIn.history) :
          /\ i < j
          /\ genIn.history[i].role = "human"
          /\ genIn.history[j].role = "ai"
          /\ genIn.history[i].content # genIn.history[j].content

HasUserMessageIn(messages) == \E k \in 1..Len(messages) : messages[k].role = "user"

\* C36: on every provider path of generateResponse and of
\* generateStreamingResponse the list handed to the provider holds at least
\* one "user" message, also when the history is empty or has no user entry.
C36_UserMessageOnEveryPath ==
    \A p \in genSrv : HasUserMessageIn(genOut[p])

\* C36, the paths that ensure it: every path but the OpenAI path of
\* generateResponse hands over a "user" message whatever the history; the
\* OpenAI path does exactly when the history has a user entry.
C36_UserMessageButOpenAI ==
    /\ \A p \in genSrv \ {"openai"} : HasUserMessageIn(genOut[p])
    /\ "openai" \in genSrv => (HasUserMessageIn(genOut["openai"]) <=> HasUserEntry)

\* C36: every path has built its list from a history without a user entry.
C36_NoUserEntrySeen ==
    /\ AllBuilt
    /\ genIn.history # <<>>
    /\ ~HasUserEntry
    /\ HasUserMessageIn(genOut["deepseek-stream"])

(***************************************************************************)
(* Claims about a request served end to end (specification SpecServe).     *)
(***************************************************************************)
RECURSIVE Flatten(_)
Flatten(texts) == IF texts = <<>> THEN <<>> ELSE Head(texts) \o Flatten(Tail(texts))

\* The request passed the route's checks with the key of its provider set.
Configured ==
    /\ genIn.model # Nil
    /\ genIn.historyIsArray
    /\ ServiceName(genIn.model) \in genIn.keys

\* C17 (as stated): a /stream request for a supported model whose credential
\* is configured, with a provider that streams without failing, is answered
\* by content events followed by the done:true event, and by no error event.
C17_SupportedModelStreams ==
    ( /\ genPc = "done"
      /\ genIn.mode = "stream"
      /\ genIn.model \in SupportedModels
      /\ Configured
      /\ ~genIn.pstream.throws ) =>
        LET n == Len(genHttp.frames)
        IN  /\ n >= 1
            /\ genHttp.frames[n].obj = DoneFrame
            /\ \A i \in 1..n : "error" \notin genHttp.frames[i].obj.has
            /\ \A i \in 1..(n - 1) : /\ ~genHttp.frames[i].obj.done
                                     /\ Truthy(genHttp.frames[i].obj.content)

\* The provider was called and what it produced is empty or blank.
ProviderYieldsBlank ==
    /\ genSrv.providerCalls = 1
    /\ IF genIn.mode = "generate"
       THEN ~genIn.outcome.throws
            /\ (genIn.outcome.isNull \/ Trim(genIn.outcome.content) = <<>>)
       ELSE ~genIn.pstream.throws /\ Trim(Flatten(genIn.pstream.deltas)) = <<>>

\* C18 (as stated): on every provider path, blocking or incremental, a
\* generation that yields empty or blank text reaches the client as a failure:
\* success false, or onError as the terminal callback.
C18_EmptyIsFailure ==
    (genPc = "done" /\ ProviderYieldsBlank) =>
        IF genIn.mode = "generate"
        THEN genOut.result.success = FALSE
        ELSE genOut.calls[Len(genOut.calls)].cb = "error"

\* The model id is missing, or the credential of the provider the model
\* selects is.
MissingModelOrCredential ==
    genIn.model = Nil \/ ServiceName(genIn.model) \notin genIn.keys

\* The text the routes give for what is wrong with the request.
Explanation ==
    IF genIn.model = Nil THEN <<"Model is required">>
    ELSE IF ~genIn.historyIsArray THEN <<"Conversation history must be an array">>
    ELSE <<"API key not configured for", ServiceName(genIn.model)>>

\* C19: with the model id or the provider's credential missing, /generate and
\* /stream make no provider call and answer with a failure that carries the
\* explanation; the client returns success false with that text, or invokes
\* onError with it and nothing else, and nothing is thrown.
C19_MissingCredentialFails ==
    (MissingModelOrCredential /\ genPc \in {"client", "done"}) =>
        /\ genSrv.providerCalls = 0
        /\ IF genIn.mode = "generate"
           THEN /\ genHttp.http.status \in {400, 500}
                /\ genHttp.http.body.error = Explanation
                /\ genPc = "done" =>
                      /\ IsFailureResult(genOut.result)
                      /\ genOut.result.error = Explanation
           ELSE /\ genHttp.frames = <<AsFrame(ErrorFrameWith(Explanation))>>
                /\ genPc = "done" => genOut.calls = <<Call("error", Explanation)>>

\* C19 witness: a /stream request for an OpenAI model without OPENAI_API_KEY
\* ended in onError naming the service.
C19_Witness ==
    /\ genPc = "done"
    /\ genIn.mode = "stream"
    /\ genIn.model = "gpt-4"
    /\ genIn.historyIsArray
    /\ genIn.keys = {"groq", "deepseek"}
    /\ genSrv.providerCalls = 0
    /\ genOut.calls = <<Call("error", <<"API key not configured for", "openai">>)>>

\* C19 witness, blocking: a /generate request for a Groq model without
\* GROQ_API_KEY came back as a failure result.
C19_WitnessBlocking ==
    /\ genPc = "done"
    /\ genIn.mode = "generate"
    /\ genIn.model = "groq-mixtral"
    /\ genIn.historyIsArray
    /\ "groq" \notin genIn.keys
    /\ genHttp.http.status = 500
    /\ ~genOut.result.success
    /\ genOut.result.error = <<"API key not configured for", "groq">>

\* A content event: content, done false, no error.
IsContentEvent(f) ==
    f.kind = "frame" /\ f.obj.has = {"content", "done"} /\ ~f.obj.done

\* A terminal event: done true, either the completion signal or an error.
IsTerminalEvent(f) ==
    /\ f.kind = "frame"
    /\ f.obj.done
    /\ \/ f.obj.has = {"content", "done"} /\ f.obj.content = <<>>
       \/ f.obj.has = {"error", "done"} /\ Truthy(f.obj.error)

\* C27: what POST /stream has written when it ends the response is zero or
\* more content events with done false followed by exactly one terminal event
\* with done true, a completion or an error, and nothing after it, also when
\* the provider fails in mid-stream; before that moment nothing is written.
C27_EventsThenOneTerminal ==
    genIn.mode = "stream" =>
        LET frames == genHttp.frames
            n == Len(frames)
        IN  IF genPc \in {"client", "done"}
            THEN /\ n >= 1
                 /\ IsTerminalEvent(frames[n])
                 /\ \A i \in 1..(n - 1) : IsContentEvent(frames[i])
            ELSE n = 0

\* C27 witness: the provider failed after a fragment; the response is the
\* fragment's event and the error event.
C27_Witness ==
    /\ genIn.mode = "stream"
    /\ genPc = "done"
    /\ genIn.pstream.throws
    /\ Len(genHttp.frames) = 2
    /\ genHttp.frames[1].obj = ContentFrame(<<"a">>)
    /\ genHttp.frames[2].obj = ErrorFrameWith(<<"socket hang up">>)

(***************************************************************************)
(* Claims about the turn orchestrator.                                     *)
(***************************************************************************)
InFlight(participant) == orCalls[participant].pc # "idle"

FlagNames == {"thinking", "generating", "typing"}

AllFlagsClear == \A side \in Sides : orFlags[side] = NoFlags

\* A send operation of this side is under way, or something it raised is
\* still set: its own thinking or generating flag, the typing flag of its
\* peer, or its registry entry.
Busy(side) ==
    \/ InFlight(side)
    \/ orFlags[side].thinking
    \/ orFlags[side].generating
    \/ orFlags[Peer(side)].typing
    \/ orCalls[side].id \in orRegistry

\* The registry holds nothing but the placeholders of calls that are streaming.
RegistryOfCallsInFlight ==
    \A id \in orRegistry :
        \E side \in Sides : orCalls[side].pc = "streaming" /\ orCalls[side].id = id

IsBlankCompletion(participant) ==
    /\ orCalls[participant].pc = "streaming"
    /\ orCalls[participant].end = "complete"
    /\ orCalls[participant].pending = <<>>
    /\ Trim(orCalls[participant].content) = <<>>
    /\ orCalls'[participant].pc = "idle"

C14_WhitespaceSeen ==
    \E side \in Sides :
        /\ orCalls[side].pc = "streaming"
        /\ orCalls[side].end = "complete"
        /\ orCalls[side].pending = <<>>
        /\ orCalls[side].content = <<" ">>
        /\ HasId(Log(side), orCalls[side].id)

\* The step on which autostart invokes requestTurn.
IsAutostartFiring == orAuto'.fired > orAuto.fired

C15_RunningWithoutStart ==
    /\ orAuto.fired = 1
    /\ orRequests = 1
    /\ isRunning
    /\ currentTurn = startingLlm
    /\ turnCount = 0
    /\ orCalls[startingLlm].pc = "delay"

====
